---- MODULE Spec2Model ----
(***************************************************************************)
(* Plex watchlist synchronisation: the detail cache (PlexDetailCache), the *)
(* fetch coordinator (WatchlistFetchCoordinator) with its concurrent       *)
(* fetcher (run_async_fetches) and the item processor                      *)
(* (WatchlistItemProcessor).                                               *)
(*                                                                         *)
(* Time is counted in whole ticks (one tick = one day of the cache's       *)
(* max_age_days); an ISO timestamp string is modelled by its tick, the     *)
(* lexicographic order of isoformat() strings being their time order.      *)
(***************************************************************************)
EXTENDS Integers, Sequences, FiniteSets, TLC

\* ------------------------------------------------------------------ bounds
MaxTime == 3
MaxAge == 2
MaxCap == 2
MaxOps == 3
BigN == 22
MaxItems == 2
MaxRuns == 2
ConnLimit == 1
MaxResults == 2

\* ------------------------------------------------------- Python's values
None == "None"
NoKey == <<>>
Missing == -1

\* cached_at of a stored value that is not a dict (a JSON null or number)
NotObject == -2

VARIABLES
    cache,        \* PlexDetailCache.cache: insertion-ordered dict, a sequence of [key, val]
    max_entries,  \* PlexDetailCache.max_entries
    now,          \* datetime.now(), in ticks
    last,         \* the last call made on the cache and what it returned
    shadow,       \* per cache key, the details and time of the last set() made for it
    ops,          \* number of calls made so far
    disk,         \* what commit() last wrote to the cache file (<<>> before any commit)
    watchlist,    \* account.watchlist(): the entries handed to the coordinator
    pc,           \* where fetch_all_item_details is: "idle", "fetching", "done"
    run,          \* number of coordinator invocations started
    cached_items, \* fetch_all_item_details: results rebuilt from cache hits
    items_to_fetch, \* fetch_all_item_details: watchlist indices to fetch
    tasks,        \* run_async_fetches: one task per item to fetch
    setIdx,       \* _fetch_and_cache_items: position of the cache-update loop
    commits,      \* commit() calls made by the current invocation
    requests,     \* watchlist indices a GET was sent for in the current invocation
    out,          \* what fetch_all_item_details returned
    results,      \* process_items: the fetched_items it is given
    removal_enabled, \* setting Debug/plex_watchlist_removal
    keep_series,  \* setting Debug/plex_watchlist_keep_series
    library,      \* the media database: presence state of each IMDB id
    ppc,          \* where process_items is: "start", "loop", "done"
    idx,          \* process_items: index of the next result to process
    presence_map, \* process_items: what the batch presence query returned
    presenceCalls, \* calls made to the presence collaborator (database_reading)
    wanted_items, \* process_items: the list it builds
    stats,        \* process_items: its counters
    trace,        \* per processed result, what was done with it
    fetcher,      \* which fetcher runs: "WatchlistFetcher" (plex_watchlist/fetcher.py)
                  \* or "run_async_fetches" (watchlist/fetcher.py, the coordinator's)
    n_items,      \* the fetcher: len(items_to_fetch)
    fpc,          \* the fetcher: "idle", "issue", "gather", "sleep", "done"
    batch_i,      \* the fetcher: offset of the current batch in the list
    batch_len,    \* the fetcher: number of requests of the current batch
    settled,      \* the fetcher: requests of the current batch that have settled
    batches,      \* the fetcher: batches issued so far
    pauses,       \* the fetcher: asyncio.sleep(1) calls so far
    all_results,  \* the fetcher: number of results collected so far
    file,         \* what is at cache_file: "missing", "unreadable", "undecodable",
                  \* "notjson", "nonobject" or "object"
    store,        \* the PlexDetailCache object: "unbuilt", "built" or "raised"
                  \* (its constructor raised)
    saved,        \* ghost: the last commit(), its write's outcome and the dict it dumped
    acct          \* the account function at work: whose watchlist, where it is, its locals

cacheVars == <<cache, max_entries, now, last, shadow, ops, disk, file, store, saved>>
coordVars == <<watchlist, pc, run, cached_items, items_to_fetch, tasks, setIdx,
               commits, requests, out>>
procVars == <<results, removal_enabled, keep_series, library, ppc, idx, presence_map,
              presenceCalls, wanted_items, stats, trace>>
fetchVars == <<fetcher, n_items, fpc, batch_i, batch_len, settled, batches, pauses,
               all_results>>
vars == <<cache, max_entries, now, last, shadow, ops, disk, watchlist, pc, run,
          cached_items, items_to_fetch, tasks, setIdx, commits, requests, out,
          results, removal_enabled, keep_series, library, ppc, idx, presence_map,
          presenceCalls, wanted_items, stats, trace,
          fetcher, n_items, fpc, batch_i, batch_len, settled, batches, pauses,
          all_results, file, store, saved, acct>>

\* ------------------------------------------------------ watchlist entries
\* A Plex item as the cache sees it: guid ("" when it has none) and, when
\* the item has both attributes, its type and title.
\* addr tells whether a detail URL can be built from it: "ok", "nokey" (no
\* key or no _server attribute) or "urlerror" (_server.url raises).
WItem(g, hasTT, ty, ti, ad) ==
    [guid |-> g, hasTitleType |-> hasTT, type |-> ty, title |-> ti, addr |-> ad]

Item(g, hasTT, ty, ti) == WItem(g, hasTT, ty, ti, "ok")

CacheItems ==
    { Item("g1", TRUE, "movie", "A"),
      Item("g2", TRUE, "show", "B"),
      Item("", TRUE, "movie", "A"),
      Item("", FALSE, "", "") }

\* a key that prefers type:title to the guid
make_cache_key_title_first(item) ==
    IF item.hasTitleType THEN <<item.type \o ":" \o item.title>>
    ELSE IF item.guid # "" THEN <<item.guid>>
    ELSE NoKey

\* _make_cache_key: the guid, else f"{item.type}:{item.title}", else None
\* (a key is a one-element tuple holding the string, None is the empty one)
make_cache_key(item) ==
    IF item.guid # "" THEN <<item.guid>>
    ELSE IF item.hasTitleType THEN <<item.type \o ":" \o item.title>>
    ELSE NoKey

CacheKeys == { make_cache_key(i) : i \in CacheItems } \ {NoKey}

\* ---------------------------------------------------------- cache entries
Details(im, tm, mt, er, at) ==
    [imdb_id |-> im, tmdb_id |-> tm, media_type |-> mt, error |-> er, cached_at |-> at]

\* What callers hand to set(): a success, an error, and a dict that already
\* carries a cached_at of its own.
DetailVals ==
    { Details("tt1", None, "movie", None, Missing),
      Details(None, None, None, "Timeout", Missing),
      Details(None, "55", "show", None, 0) }

Fields(e) == <<e.imdb_id, e.tmdb_id, e.media_type, e.error>>

\* ------------------------------------------------- dict helpers (ordered)
KeysOf(c) == { c[i].key : i \in DOMAIN c }

Lookup(c, k) == (CHOOSE i \in DOMAIN c : c[i].key = k)

EntryOf(c, k) == c[Lookup(c, k)].val

DelKey(c, k) == SelectSeq(c, LAMBDA p : p.key # k)

PutKey(c, k, v) ==
    IF k \in KeysOf(c)
    THEN [c EXCEPT ![Lookup(c, k)] = [key |-> k, val |-> v]]
    ELSE Append(c, [key |-> k, val |-> v])

\* ------------------------------------------------------ PlexDetailCache
\* the sort reversed: newest first
BeforeNewest(c, j, i) ==
    \/ c[j].val.cached_at > c[i].val.cached_at
    \/ c[j].val.cached_at = c[i].val.cached_at /\ j < i

\* sorted(self.cache.keys(), key=cached_at or ""): a stable sort, so index j
\* comes before index i when its stamp is smaller, or equal and j < i.
Before(c, j, i) ==
    \/ c[j].val.cached_at < c[i].val.cached_at
    \/ c[j].val.cached_at = c[i].val.cached_at /\ j < i

SortedRank(c, i) == Cardinality({ j \in DOMAIN c : Before(c, j, i) })

entries_to_remove(cap) == IF cap \div 10 > 1 THEN cap \div 10 ELSE 1

\* the keys of sorted_keys[:entries_to_remove]
EvictedKeys(c, cap) ==
    IF Len(c) >= cap
    THEN { c[i].key : i \in { j \in DOMAIN c : SortedRank(c, j) < entries_to_remove(cap) } }
    ELSE {}

DelKeys(c, ks) == SelectSeq(c, LAMBDA p : p.key \notin ks)

\* What get() returns: the entry, or None
Hit(entry) == [hit |-> TRUE, entry |-> entry, exc |-> None]
Absent == [hit |-> FALSE, entry |-> Details(None, None, None, None, Missing), exc |-> None]

\* a call that returned nothing: it raised exc
Raised(exc) == [hit |-> FALSE, entry |-> Details(None, None, None, None, Missing), exc |-> exc]

\* get() with an off-by-one expiry test (an entry aged exactly max_age still served)
cache_get_late(c, item, t) ==
    LET k == make_cache_key(item) IN
    IF k = NoKey THEN [ret |-> Absent, cache |-> c]
    ELSE IF k \in KeysOf(c)
         THEN LET entry == EntryOf(c, k) IN
              IF entry.cached_at = NotObject THEN [ret |-> Raised("TypeError"), cache |-> c]
              ELSE IF entry.cached_at # Missing /\ t - entry.cached_at <= MaxAge
              THEN [ret |-> Hit(entry), cache |-> c]
              ELSE [ret |-> Absent, cache |-> DelKey(c, k)]
         ELSE [ret |-> Absent, cache |-> c]

\* get(): [ret, cache], the value returned and the dict afterwards
cache_get(c, item, t) ==
    LET k == make_cache_key(item) IN
    IF k = NoKey THEN [ret |-> Absent, cache |-> c]
    ELSE IF k \in KeysOf(c)
         THEN LET entry == EntryOf(c, k) IN
              \* "cached_at" in entry raises when entry is None or a number
              IF entry.cached_at = NotObject THEN [ret |-> Raised("TypeError"), cache |-> c]
              ELSE IF entry.cached_at # Missing /\ t - entry.cached_at < MaxAge
              THEN [ret |-> Hit(entry), cache |-> c]
              ELSE [ret |-> Absent, cache |-> DelKey(c, k)]
         ELSE [ret |-> Absent, cache |-> c]

\* set() keeping a cached_at the caller's dict already carries
cache_set_keep_stamp(c, cap, item, details, t) ==
    LET k == make_cache_key(item) IN
    IF k = NoKey THEN c
    ELSE PutKey(DelKeys(c, EvictedKeys(c, cap)), k,
                [details EXCEPT !.cached_at = IF @ = Missing THEN t ELSE @])

\* set() raises when the eviction sort meets a stored value that has no
\* get method: self.cache[k].get("cached_at", "")
set_raises(c, cap, item) ==
    /\ make_cache_key(item) # NoKey
    /\ Len(c) >= cap
    /\ \E i \in DOMAIN c : c[i].val.cached_at = NotObject

\* set(): the new dict
cache_set(c, cap, item, details, t) ==
    LET k == make_cache_key(item) IN
    IF k = NoKey THEN c
    ELSE PutKey(DelKeys(c, EvictedKeys(c, cap)), k, [details EXCEPT !.cached_at = t])

\* ----------------------------------------------- the persisted JSON object
\* _load_cache(): any JSON object over the known keys, in any key order;
\* an entry may lack cached_at.
LoadedEntries ==
    { Details("tt9", None, "movie", None, at) : at \in {Missing, 0} }

RECURSIVE StoresOver(_)
StoresOver(ks) ==
    IF ks = {} THEN { <<>> }
    ELSE UNION { { <<[key |-> k, val |-> e]>> \o s : s \in StoresOver(ks \ {k}), e \in LoadedEntries }
                 : k \in ks }

LoadedStores == UNION { StoresOver(ks) : ks \in SUBSET CacheKeys }

NoDetails == Details(None, None, None, None, Missing)

\* ------------------------------------------------------- the cache file
\* a stored value that is not a dict
NullEntry == Details(None, None, None, None, NotObject)

\* JSON values: null and strings; a member of a JSON object
JNull == [t |-> "null", s |-> ""]
JStr(x) == [t |-> "string", s |-> x]
Member(n, v) == [name |-> n, value |-> v]

dump_value(v) == IF v = None THEN JNull ELSE JStr(v)

\* an entry written without its error member
dump_entry_no_error(e) ==
    IF e.cached_at = NotObject THEN [t |-> "null", members |-> <<>>]
    ELSE [t |-> "object",
          members |-> <<Member("imdb_id", dump_value(e.imdb_id)),
                        Member("tmdb_id", dump_value(e.tmdb_id)),
                        Member("media_type", dump_value(e.media_type))>>
                      \o (IF e.cached_at = Missing THEN <<>>
                          ELSE <<Member("cached_at", JStr(e.cached_at))>>)]

\* json.dump of one entry: None is written as null, a key the dict lacks
\* is not written
dump_entry(e) ==
    IF e.cached_at = NotObject THEN [t |-> "null", members |-> <<>>]
    ELSE [t |-> "object",
          members |-> <<Member("imdb_id", dump_value(e.imdb_id)),
                        Member("tmdb_id", dump_value(e.tmdb_id)),
                        Member("media_type", dump_value(e.media_type)),
                        Member("error", dump_value(e.error))>>
                      \o (IF e.cached_at = Missing THEN <<>>
                          ELSE <<Member("cached_at", JStr(e.cached_at))>>)]

\* json.dump(self.cache, f, indent=2): the members in the dict's order
json_dump(c) == [i \in DOMAIN c |-> [key |-> c[i].key, val |-> dump_entry(c[i].val)]]

HasMember(j, n) == \E i \in DOMAIN j.members : j.members[i].name = n

MemberOf(j, n) == j.members[CHOOSE i \in DOMAIN j.members : j.members[i].name = n].value

\* entry.get(n) on a loaded entry: null and a missing member both read None
load_value(j, n) ==
    IF HasMember(j, n) /\ MemberOf(j, n).t # "null" THEN MemberOf(j, n).s ELSE None

load_entry(j) ==
    IF j.t # "object" THEN NullEntry
    ELSE Details(load_value(j, "imdb_id"), load_value(j, "tmdb_id"),
                 load_value(j, "media_type"), load_value(j, "error"),
                 IF HasMember(j, "cached_at") THEN MemberOf(j, "cached_at").s ELSE Missing)

\* json.load of a JSON object
json_load(d) == [i \in DOMAIN d |-> [key |-> d[i].key, val |-> load_entry(d[i].val)]]

\* _load_cache(): [raised, cache]. A file whose bytes cannot be decoded
\* makes f.read() raise UnicodeDecodeError, which is neither of the two
\* exceptions caught.
load_cache(f, d) ==
    IF f = "missing" THEN [raised |-> FALSE, cache |-> <<>>]
    ELSE IF f = "unreadable" THEN [raised |-> FALSE, cache |-> <<>>]
    ELSE IF f = "undecodable" THEN [raised |-> TRUE, cache |-> <<>>]
    ELSE IF f = "notjson" THEN [raised |-> FALSE, cache |-> <<>>]
    ELSE IF f = "object" THEN [raised |-> FALSE, cache |-> json_load(d)]
    ELSE [raised |-> FALSE, cache |-> <<>>]

\* what can happen to the write: it succeeds, makedirs or open raises
\* (the file is as it was), or json.dump raises after open truncated the file
WriteOutcomes == {"ok", "nowrite", "partial"}

\* _save_cache() letting the exception of a failed write out
save_cache_uncaught(c, f, d, w) ==
    IF w = "ok" THEN [raised |-> FALSE, file |-> "object", disk |-> json_dump(c)]
    ELSE IF w = "nowrite" THEN [raised |-> TRUE, file |-> f, disk |-> d]
    ELSE [raised |-> TRUE, file |-> "notjson", disk |-> <<>>]

\* _save_cache(): [raised, file, disk]; every Exception is caught and logged
save_cache(c, f, d, w) ==
    IF w = "ok" THEN [raised |-> FALSE, file |-> "object", disk |-> json_dump(c)]
    ELSE IF w = "nowrite" THEN [raised |-> FALSE, file |-> f, disk |-> d]
    ELSE [raised |-> FALSE, file |-> "notjson", disk |-> <<>>]

NoSave == [w |-> "none", cache |-> <<>>]

\* a cache object built over no file
NoFile ==
    /\ file = "missing"
    /\ store = "built"
    /\ saved = NoSave

NoCall == [op |-> "none", item |-> Item("", FALSE, "", ""), details |-> NoDetails,
           ret |-> Absent, evicted |-> {}]

NoSet == [fields |-> <<>>, at |-> Missing]

NoOut == [items |-> <<>>, cache_hits |-> 0, fetched_count |-> 0, total_items |-> 0]

\* no coordinator at work
CoordIdle ==
    /\ watchlist = <<>>
    /\ pc = "idle"
    /\ run = 0
    /\ cached_items = <<>>
    /\ items_to_fetch = <<>>
    /\ tasks = <<>>
    /\ setIdx = 0
    /\ commits = 0
    /\ requests = {}
    /\ out = NoOut

\* no account function has been called
NoAcct ==
    [who |-> "none", username |-> "", token_user |-> "", conn |-> "", pos |-> "idle", i |-> 0,
     should_remove |-> FALSE, keep_series |-> FALSE,
     wanted |-> <<>>, loaded |-> <<>>, returned |-> <<>>, exc |-> "", raised |-> FALSE,
     listings |-> 0, caches |-> 0, conversions |-> 0, presences |-> 0, statuses |-> 0,
     removals |-> 0, removed |-> 0]

\* no processor at work
ProcIdle ==
    /\ results = <<>>
    /\ removal_enabled = FALSE
    /\ keep_series = FALSE
    /\ library = <<>>
    /\ ppc = "idle"
    /\ idx = 1
    /\ presence_map = <<>>
    /\ presenceCalls = 0
    /\ wanted_items = <<>>
    /\ stats = [skipped |-> 0, removed |-> 0, collected_kept |-> 0, processed |-> 0]
    /\ trace = <<>>

\* no fetcher at work
FetchIdle ==
    /\ fetcher = "WatchlistFetcher"
    /\ n_items = 0
    /\ fpc = "idle"
    /\ batch_i = 0
    /\ batch_len = 0
    /\ settled = 0
    /\ batches = 0
    /\ pauses = 0
    /\ all_results = 0

CacheInit ==
    /\ cache \in LoadedStores
    /\ max_entries \in 1..MaxCap
    /\ now = 0
    /\ last = NoCall
    /\ shadow = [k \in CacheKeys |-> NoSet]
    /\ ops = 0
    /\ disk = <<>>
    /\ CoordIdle
    /\ ProcIdle
    /\ FetchIdle
    /\ NoFile
    /\ acct = NoAcct

Get(item) ==
    /\ store = "built"
    /\ ops < MaxOps
    /\ LET r == cache_get(cache, item, now) IN
       /\ cache' = r.cache
       /\ last' = [op |-> "get", item |-> item, details |-> NoDetails, ret |-> r.ret,
                   evicted |-> KeysOf(cache) \ KeysOf(r.cache)]
    /\ ops' = ops + 1
    /\ UNCHANGED <<acct, file, store, saved, max_entries, now, shadow, disk, coordVars, procVars, fetchVars>>

Set(item, details) ==
    /\ store = "built"
    /\ ops < MaxOps
    /\ cache' = IF set_raises(cache, max_entries, item) THEN cache
                ELSE cache_set(cache, max_entries, item, details, now)
    /\ last' = [op |-> "set", item |-> item, details |-> details,
                ret |-> IF set_raises(cache, max_entries, item)
                        THEN Raised("AttributeError") ELSE Absent,
                evicted |-> IF make_cache_key(item) = NoKey
                               \/ set_raises(cache, max_entries, item) THEN {}
                            ELSE EvictedKeys(cache, max_entries)]
    /\ shadow' = IF make_cache_key(item) = NoKey \/ set_raises(cache, max_entries, item)
                 THEN shadow
                 ELSE [shadow EXCEPT ![make_cache_key(item)] =
                          [fields |-> Fields(details), at |-> now]]
    /\ ops' = ops + 1
    /\ UNCHANGED <<acct, file, store, saved, max_entries, now, disk, coordVars, procVars, fetchVars>>

Tick ==
    /\ now < MaxTime
    /\ now' = now + 1
    /\ last' = [NoCall EXCEPT !.op = "tick"]
    /\ UNCHANGED <<acct, file, store, saved, cache, max_entries, shadow, ops, disk, coordVars, procVars, fetchVars>>

CacheNext ==
    \/ \E item \in CacheItems : Get(item)
    \/ \E item \in CacheItems, details \in DetailVals : Set(item, details)
    \/ Tick

SpecCache == CacheInit /\ [][CacheNext]_vars

\* Stores of up to BigN entries, enough for max_entries // 10 to exceed 1:
\* entry i carries one of three stamps (none, 0, 1) in a repeating pattern.
BigKey(i) == IF i = 1 THEN <<"g1">> ELSE <<ToString(i)>>

BigStore(n, a, b) ==
    [i \in 1..n |-> [key |-> BigKey(i),
                     val |-> Details("tt9", None, "movie", None, ((a * i + b) % 3) - 1)]]

BigStores == { BigStore(n, a, b) : n \in 0..BigN, a \in 0..2, b \in 0..2 }

EvictInit ==
    /\ cache \in BigStores
    /\ max_entries \in {0, 1, 10, 19, 20, 21}
    /\ now = 0
    /\ last = NoCall
    /\ shadow = [k \in CacheKeys |-> NoSet]
    /\ ops = MaxOps - 1
    /\ disk = <<>>
    /\ CoordIdle
    /\ ProcIdle
    /\ FetchIdle
    /\ NoFile
    /\ acct = NoAcct

SpecEvict == EvictInit /\ [][CacheNext]_vars

\* ------------------------------------------------ items and their keys
\* a second Plex object without guid, of the same type and title as the
\* one in CacheItems
SecondObject == WItem("", TRUE, "movie", "A", "nokey")

\* an empty cache written through the items of CacheItems and read through
\* them and through the second object
KeysNext ==
    \/ \E item \in CacheItems \cup {SecondObject} : Get(item)
    \/ \E item \in CacheItems, details \in DetailVals : Set(item, details)
    \/ Tick

KeysInit ==
    /\ cache = <<>>
    /\ max_entries = MaxCap + 1
    /\ now = 0
    /\ last = NoCall
    /\ shadow = [k \in CacheKeys |-> NoSet]
    /\ ops = 0
    /\ disk = <<>>
    /\ CoordIdle
    /\ ProcIdle
    /\ FetchIdle
    /\ NoFile
    /\ acct = NoAcct

SpecKeys == KeysInit /\ [][KeysNext]_vars

\* ------------------------------------------- a cache over a persisted file
\* what a cache file holding a JSON object can hold under a key: an entry
\* with or without cached_at, or a value that is not an object
FileEntries == LoadedEntries \cup {NullEntry}

FileKeys == { <<"g1">>, <<"g2">> }

RECURSIVE FileStoresOver(_)
FileStoresOver(ks) ==
    IF ks = {} THEN { <<>> }
    ELSE UNION { { <<[key |-> k, val |-> e]>> \o c : c \in FileStoresOver(ks \ {k}), e \in FileEntries }
                 : k \in ks }

FileObjects == { json_dump(c) : c \in UNION { FileStoresOver(ks) : ks \in SUBSET FileKeys } }

\* the items looked up and stored: those of the file's keys
PersistItems == { i \in CacheItems : make_cache_key(i) \in FileKeys }

FileKinds == {"missing", "unreadable", "undecodable", "notjson", "nonobject", "object"}

\* PlexDetailCache(cache_file): self.cache = self._load_cache()
Construct ==
    /\ store = "unbuilt"
    /\ LET r == load_cache(file, disk) IN
       /\ store' = IF r.raised THEN "raised" ELSE "built"
       /\ cache' = r.cache
    /\ last' = [NoCall EXCEPT !.op = "init"]
    /\ shadow' = [k \in CacheKeys |-> NoSet]
    /\ UNCHANGED <<acct, max_entries, now, ops, disk, file, saved, coordVars, procVars, fetchVars>>

\* commit() on its own
CommitCache(w) ==
    /\ store = "built"
    /\ ops < MaxOps
    /\ LET r == save_cache(cache, file, disk, w) IN
       /\ file' = r.file
       /\ disk' = r.disk
       /\ store' = IF r.raised THEN "raised" ELSE "built"
    /\ saved' = [w |-> w, cache |-> cache]
    /\ last' = [NoCall EXCEPT !.op = "commit"]
    /\ ops' = ops + 1
    /\ UNCHANGED <<acct, cache, max_entries, now, shadow, coordVars, procVars, fetchVars>>

\* the process ends; the next one builds its cache from the file
Exit ==
    /\ store \in {"built", "raised"}
    /\ ops < MaxOps
    /\ store' = "unbuilt"
    /\ cache' = <<>>
    /\ last' = [NoCall EXCEPT !.op = "exit"]
    /\ ops' = ops + 1
    /\ UNCHANGED <<acct, max_entries, now, shadow, disk, file, saved, coordVars, procVars, fetchVars>>

PersistNext ==
    \/ Construct
    \/ \E item \in PersistItems : Get(item)
    \/ \E item \in PersistItems, details \in DetailVals : Set(item, details)
    \/ Tick
    \/ \E w \in WriteOutcomes : CommitCache(w)
    \/ Exit

PersistInit ==
    /\ cache = <<>>
    /\ max_entries \in 1..MaxCap
    /\ now = 0
    /\ last = NoCall
    /\ shadow = [k \in CacheKeys |-> NoSet]
    /\ ops = 0
    /\ file \in FileKinds
    /\ disk \in (IF file = "object" THEN FileObjects ELSE { <<>> })
    /\ store = "unbuilt"
    /\ saved = NoSave
    /\ acct = NoAcct
    /\ CoordIdle
    /\ ProcIdle
    /\ FetchIdle

SpecPersist == PersistInit /\ [][PersistNext]_vars

\* ------------------------------------------------- fetcher (watchlist/fetcher.py)
\* A <Guid id="prefix + id"/> child; prefix "" stands for a missing id attribute.
Guid(prefix, id) == [prefix |-> prefix, id |-> id]

\* The XML body of a 200 response: well-formed or not, its root tag, the
\* first Video or Directory child ("none" when there is neither), that
\* element's type attribute and its Guid children.
Body(xml, root, media, ty, guids) ==
    [xml |-> xml, root |-> root, media |-> media, type |-> ty, guids |-> guids]

NoBody == Body("malformed", "", "none", None, <<>>)

\* What session.get does: "timeout", "exc" (any other exception, with its
\* message) or "http" (a response with a status and a body).
Response(kind, status, msg, body) ==
    [kind |-> kind, status |-> status, msg |-> msg, body |-> body]

RTimeout == Response("timeout", 0, "", NoBody)
RHttp500 == Response("http", 500, "", NoBody)
RExc == Response("exc", 0, "Connection reset", NoBody)
RMalformed == Response("http", 200, "", NoBody)
RNoMedia == Response("http", 200, "", Body("ok", "MediaContainer", "none", None, <<>>))
ROtherRoot == Response("http", 200, "", Body("ok", "Response", "Video", "movie", <<Guid("imdb://", "tt1")>>))
RNoGuid == Response("http", 200, "", Body("ok", "MediaContainer", "Video", "movie", <<Guid("tvdb://", "9")>>))
RImdb == Response("http", 200, "", Body("ok", "MediaContainer", "Video", "movie", <<Guid("imdb://", "tt1")>>))
RTmdb == Response("http", 200, "", Body("ok", "MediaContainer", "Directory", "show", <<Guid("", ""), Guid("tmdb://", "55")>>))
RBoth == Response("http", 200, "", Body("ok", "MediaContainer", "Video", None,
                  <<Guid("imdb://", "tt2"), Guid("tmdb://", "77"), Guid("imdb://", "tt1")>>))

Responses == {RTimeout, RHttp500, RExc, RMalformed, RNoMedia, ROtherRoot, RNoGuid, RImdb, RTmdb, RBoth}

\* the responses the coordinator is run against
CoordResponses == {RTimeout, RHttp500, RExc, RMalformed, RImdb, RTmdb}

\* PlexItemDetails(...).to_dict(); src is original_plex_item, a watchlist index
Result(im, tm, mt, src, er) ==
    [imdb_id |-> im, tmdb_id |-> tm, media_type |-> mt, src |-> src, error |-> er]

\* _find_media_element
find_media_element(body) ==
    IF body.root # "MediaContainer" THEN "none" ELSE body.media

\* _extract_guid_ids: the loop over the Guid children, the last match winning
RECURSIVE extract_guid_ids(_, _, _, _)
extract_guid_ids(guids, i, imdb, tmdb) ==
    IF i > Len(guids) THEN <<imdb, tmdb>>
    ELSE IF guids[i].prefix = "" THEN extract_guid_ids(guids, i + 1, imdb, tmdb)
    ELSE IF guids[i].prefix = "imdb://" THEN extract_guid_ids(guids, i + 1, guids[i].id, tmdb)
    ELSE IF guids[i].prefix = "tmdb://" THEN extract_guid_ids(guids, i + 1, imdb, guids[i].id)
    ELSE extract_guid_ids(guids, i + 1, imdb, tmdb)

\* extract_ids_from_xml: <<imdb_id, tmdb_id, media_type>>
extract_ids_from_xml(body) ==
    IF body.xml # "ok" THEN <<None, None, None>>
    ELSE IF find_media_element(body) = "none" \/ Len(body.guids) = 0
         THEN <<None, None, None>>
         ELSE LET ids == extract_guid_ids(body.guids, 1, None, None)
              IN <<ids[1], ids[2], body.type>>

HttpError(status) == IF status = 500 THEN "HTTP500" ELSE "HTTP404"

\* a fetch in which the XML parser's exception reaches the generic handler
fetch_item_details_parse_raises(resp, src) ==
    IF resp.kind = "timeout" THEN Result(None, None, None, src, "Timeout")
    ELSE IF resp.kind = "exc" THEN Result(None, None, None, src, resp.msg)
    ELSE IF resp.status # 200 THEN Result(None, None, None, src, HttpError(resp.status))
    ELSE IF resp.body.xml # "ok" THEN Result(None, None, None, src, "not well-formed")
    ELSE LET x == extract_ids_from_xml(resp.body) IN
         IF x[1] = None /\ x[2] = None
         THEN Result(None, None, None, src, "XMLParseError")
         ELSE Result(x[1], x[2], x[3], src, None)

\* fetch_item_details_and_extract_ids
fetch_item_details(resp, src) ==
    IF resp.kind = "timeout" THEN Result(None, None, None, src, "Timeout")
    ELSE IF resp.kind = "exc" THEN Result(None, None, None, src, resp.msg)
    ELSE IF resp.status # 200 THEN Result(None, None, None, src, HttpError(resp.status))
    ELSE LET x == extract_ids_from_xml(resp.body) IN
         IF x[1] = None /\ x[2] = None
         THEN Result(None, None, None, src, "XMLParseError")
         ELSE Result(x[1], x[2], x[3], src, None)

\* ------------------------------------------ WatchlistFetchCoordinator
\* _reconstruct_item_from_cache
reconstruct_item_from_cache(i, e) ==
    Result(e.imdb_id, e.tmdb_id, e.media_type, i, e.error)

\* a preparation that finds a URL for every entry
prepare_item_for_fetch_any(item) == TRUE

\* _prepare_item_for_fetch returns a dict (TRUE) or None (FALSE)
prepare_item_for_fetch(item) == item.addr = "ok"

\* the loop with a hit put on the fetch list as well
RECURSIVE PartitionFetchAll(_, _, _, _, _, _)
PartitionFetchAll(wl, i, c, hits, tofetch, t) ==
    IF i > Len(wl)
    THEN [cache |-> c, cached_items |-> hits, items_to_fetch |-> tofetch, raised |-> FALSE]
    ELSE LET r == cache_get(c, wl[i], t) IN
         IF r.ret.exc # None
         THEN [cache |-> c, cached_items |-> hits, items_to_fetch |-> tofetch, raised |-> TRUE]
         ELSE IF r.ret.hit
         THEN PartitionFetchAll(wl, i + 1, r.cache,
                        Append(hits, reconstruct_item_from_cache(i, r.ret.entry)),
                        IF prepare_item_for_fetch(wl[i]) THEN Append(tofetch, i) ELSE tofetch, t)
         ELSE PartitionFetchAll(wl, i + 1, r.cache, hits,
                        IF prepare_item_for_fetch(wl[i]) THEN Append(tofetch, i) ELSE tofetch, t)

\* the loop of fetch_all_item_details over watchlist_items, from index i on;
\* an exception of self.cache.get ends it (raised)
RECURSIVE Partition(_, _, _, _, _, _)
Partition(wl, i, c, hits, tofetch, t) ==
    IF i > Len(wl)
    THEN [cache |-> c, cached_items |-> hits, items_to_fetch |-> tofetch, raised |-> FALSE]
    ELSE LET r == cache_get(c, wl[i], t) IN
         IF r.ret.exc # None
         THEN [cache |-> c, cached_items |-> hits, items_to_fetch |-> tofetch, raised |-> TRUE]
         ELSE IF r.ret.hit
         THEN Partition(wl, i + 1, r.cache,
                        Append(hits, reconstruct_item_from_cache(i, r.ret.entry)), tofetch, t)
         ELSE Partition(wl, i + 1, r.cache, hits,
                        IF prepare_item_for_fetch(wl[i]) THEN Append(tofetch, i) ELSE tofetch, t)

\* a cache entry that leaves the error out
cache_entry_ids_only(r) == Details(r.imdb_id, r.tmdb_id, r.media_type, None, Missing)

\* cache_entry built from a fetched result
cache_entry(r) == Details(r.imdb_id, r.tmdb_id, r.media_type, r.error, Missing)

\* a task of the gather: where it is, what session.get did in it and the
\* dict it returned
Pending == [st |-> "pending", resp |-> Response("none", 0, "", NoBody),
            res |-> Result(None, None, None, 0, None)]

InFlight == { j \in DOMAIN tasks : tasks[j].st = "inflight" }

\* a gather that hands its results on as soon as the first task is done
gather_first(ts) == Len(ts) > 0 /\ ts[1].st = "settled"

\* asyncio.gather(*tasks) has returned: every task has settled
gather_returned(ts) == \A j \in DOMAIN ts : ts[j].st = "settled"

\* a gather that leaves out the tasks that ended in an error
gather_results_ok_only(ts) ==
    SelectSeq([j \in DOMAIN ts |-> ts[j].res], LAMBDA r : r.error = None)

\* the list asyncio.gather returns: the tasks' results, in task order
gather_results(ts) == [j \in DOMAIN ts |-> ts[j].res]

StatsOf(hits, fetched) ==
    [items |-> hits \o fetched, cache_hits |-> Len(hits), fetched_count |-> Len(fetched),
     total_items |-> Len(hits \o fetched)]

\* fetch_all_item_details up to the call of asyncio.run; with nothing to
\* fetch it returns at once
StartRun ==
    /\ pc \in {"idle", "done"}
    /\ run < MaxRuns
    /\ LET p == Partition(watchlist, 1, cache, <<>>, <<>>, now) IN
       /\ cache' = p.cache
       /\ cached_items' = p.cached_items
       /\ items_to_fetch' = p.items_to_fetch
       /\ tasks' = [j \in DOMAIN p.items_to_fetch |-> Pending]
       /\ IF p.raised
          THEN pc' = "crashed" /\ out' = NoOut
          ELSE IF p.items_to_fetch = <<>>
          THEN pc' = "done" /\ out' = StatsOf(p.cached_items, <<>>)
          ELSE pc' = "fetching" /\ out' = NoOut
    /\ run' = run + 1
    /\ setIdx' = 0
    /\ commits' = 0
    /\ requests' = {}
    /\ UNCHANGED <<acct, file, store, saved, max_entries, now, last, shadow, ops, disk, watchlist, procVars, fetchVars>>

\* a task gets one of the connector's limit_per_host connections and sends its GET
Issue(j) ==
    /\ pc = "fetching"
    /\ tasks[j].st = "pending"
    /\ Cardinality(InFlight) < ConnLimit
    /\ tasks' = [tasks EXCEPT ![j].st = "inflight"]
    /\ requests' = requests \cup {items_to_fetch[j]}
    /\ UNCHANGED <<acct, cacheVars, watchlist, pc, run, cached_items, items_to_fetch,
                   setIdx, commits, out, procVars, fetchVars>>

\* a gather in which a failed request cancels the requests still running
Settle_cancelling(j, resp) ==
    /\ pc = "fetching"
    /\ tasks[j].st = "inflight"
    /\ LET res == fetch_item_details(resp, items_to_fetch[j]) IN
       tasks' = [k \in DOMAIN tasks |->
                    IF k = j THEN [st |-> "settled", resp |-> resp, res |-> res]
                    ELSE IF res.error # None /\ tasks[k].st # "settled"
                    THEN [st |-> "settled", resp |-> RExc,
                          res |-> fetch_item_details(RExc, items_to_fetch[k])]
                    ELSE tasks[k]]
    /\ UNCHANGED <<acct, cacheVars, watchlist, pc, run, cached_items, items_to_fetch,
                   setIdx, commits, requests, out, procVars, fetchVars>>

\* the request of task j ends: a response, a timeout or another exception
Settle(j, resp) ==
    /\ pc = "fetching"
    /\ tasks[j].st = "inflight"
    /\ tasks' = [tasks EXCEPT ![j] =
                    [st |-> "settled", resp |-> resp,
                     res |-> fetch_item_details(resp, items_to_fetch[j])]]
    /\ UNCHANGED <<acct, cacheVars, watchlist, pc, run, cached_items, items_to_fetch,
                   setIdx, commits, requests, out, procVars, fetchVars>>

\* ClientTimeout(total=20) also runs while the task waits for a connection
TimeoutWaiting(j) ==
    /\ pc = "fetching"
    /\ tasks[j].st = "pending"
    /\ Cardinality(InFlight) >= ConnLimit
    /\ tasks' = [tasks EXCEPT ![j] =
                    [st |-> "settled", resp |-> RTimeout,
                     res |-> fetch_item_details(RTimeout, items_to_fetch[j])]]
    /\ UNCHANGED <<acct, cacheVars, watchlist, pc, run, cached_items, items_to_fetch,
                   setIdx, commits, requests, out, procVars, fetchVars>>

\* one turn of the cache-update loop of _fetch_and_cache_items
CacheStep ==
    /\ pc = "fetching"
    /\ gather_returned(tasks)
    /\ setIdx < Len(gather_results(tasks))
    /\ tasks[setIdx + 1].st = "settled"
    /\ LET r == gather_results(tasks)[setIdx + 1]
           item == watchlist[r.src]
           k == make_cache_key(item)
       IN IF set_raises(cache, max_entries, item)
          THEN /\ pc' = "crashed"
               /\ UNCHANGED <<cache, shadow, setIdx>>
          ELSE /\ cache' = cache_set(cache, max_entries, item, cache_entry(r), now)
               /\ shadow' = IF k = NoKey THEN shadow
                            ELSE [shadow EXCEPT ![k] = [fields |-> Fields(cache_entry(r)), at |-> now]]
               /\ setIdx' = setIdx + 1
               /\ pc' = pc
    /\ UNCHANGED <<acct, file, store, saved, max_entries, now, last, ops, disk, watchlist, run,
                   cached_items, items_to_fetch, tasks, commits, requests, out, procVars, fetchVars>>

\* self.cache.commit(), then the return of fetch_all_item_details
Commit(w) ==
    /\ pc = "fetching"
    /\ gather_returned(tasks)
    /\ setIdx = Len(gather_results(tasks))
    /\ LET r == save_cache(cache, file, disk, w) IN
       /\ file' = r.file
       /\ disk' = r.disk
       /\ IF r.raised
          THEN pc' = "crashed" /\ out' = NoOut
          ELSE pc' = "done" /\ out' = StatsOf(cached_items, gather_results(tasks))
    /\ saved' = [w |-> w, cache |-> cache]
    /\ commits' = commits + 1
    /\ UNCHANGED <<acct, store, cache, max_entries, now, last, shadow, ops, watchlist, run,
                   cached_items, items_to_fetch, tasks, setIdx, requests, procVars, fetchVars>>

\* a day passes between two invocations (the time before the first one
\* changes nothing: the store is empty until then)
Pass ==
    /\ pc \in {"idle", "done"}
    /\ run > 0
    /\ now < MaxTime
    /\ now' = now + 1
    /\ pc' = "idle"
    /\ UNCHANGED <<acct, file, store, saved, cache, max_entries, last, shadow, ops, disk, watchlist, run,
                   cached_items, items_to_fetch, tasks, setIdx, commits, requests, out, procVars, fetchVars>>

CoordNext ==
    \/ StartRun
    \/ \E j \in DOMAIN tasks : Issue(j)
    \/ \E j \in DOMAIN tasks, resp \in CoordResponses : Settle(j, resp)
    \/ \E j \in DOMAIN tasks : TimeoutWaiting(j)
    \/ CacheStep
    \/ Commit("ok")
    \/ Pass

\* the entries a watchlist is made of: two with a GUID, one of them twice over
\* (as a second object), and one no detail URL can be built for
WatchItems ==
    { WItem("g1", TRUE, "movie", "A", "ok"),
      WItem("g2", TRUE, "show", "B", "ok"),
      WItem("g2", TRUE, "show", "B", "nokey") }

RECURSIVE SeqsUpTo(_, _)
SeqsUpTo(S, n) ==
    IF n = 0 THEN { <<>> }
    ELSE SeqsUpTo(S, n - 1) \cup { Append(q, x) : q \in { q2 \in SeqsUpTo(S, n - 1) : Len(q2) = n - 1 }, x \in S }

CoordInit ==
    /\ cache = <<>>
    /\ max_entries \in 1..MaxCap
    /\ now = 0
    /\ last = NoCall
    /\ shadow = [k \in CacheKeys |-> NoSet]
    /\ ops = 0
    /\ disk = <<>>
    /\ watchlist \in SeqsUpTo(WatchItems, MaxItems) \ { <<>> }
    /\ pc = "idle"
    /\ run = 0
    /\ cached_items = <<>>
    /\ items_to_fetch = <<>>
    /\ tasks = <<>>
    /\ setIdx = 0
    /\ commits = 0
    /\ requests = {}
    /\ out = NoOut
    /\ ProcIdle
    /\ FetchIdle
    /\ NoFile
    /\ acct = NoAcct

SpecCoord == CoordInit /\ [][CoordNext]_vars

\* The fetch phase of a run against every kind of response, over watchlists
\* of addressable entries.
RequestsNext ==
    \/ StartRun
    \/ \E j \in DOMAIN tasks : Issue(j)
    \/ \E j \in DOMAIN tasks, resp \in Responses : Settle(j, resp)
    \/ \E j \in DOMAIN tasks : TimeoutWaiting(j)
    \/ CacheStep
    \/ \E w \in WriteOutcomes : Commit(w)

RequestsInit ==
    /\ cache = <<>>
    /\ max_entries = MaxCap
    /\ now = 0
    /\ last = NoCall
    /\ shadow = [k \in CacheKeys |-> NoSet]
    /\ ops = 0
    /\ disk = <<>>
    /\ watchlist \in SeqsUpTo({ w \in WatchItems : w.addr = "ok" }, MaxItems) \ { <<>> }
    /\ pc = "idle"
    /\ run = 0
    /\ cached_items = <<>>
    /\ items_to_fetch = <<>>
    /\ tasks = <<>>
    /\ setIdx = 0
    /\ commits = 0
    /\ requests = {}
    /\ out = NoOut
    /\ ProcIdle
    /\ FetchIdle
    /\ NoFile
    /\ acct = NoAcct

SpecRequests == RequestsInit /\ [][RequestsNext]_vars

\* --------------------------------- WatchlistItemProcessor (item_processor.py)
\* Python truthiness of an optional string
Truthy(x) == x # None /\ x # ""

\* DirectAPI.tmdb_to_imdb as seen by tmdb_to_imdb: an id, None, or "raise"
ConvOutcomes == {"tt3", None, "raise"}

\* a conversion that lets the service's exception through as its result
tmdb_to_imdb_uncaught(outcome) == IF ~Truthy(outcome) THEN None ELSE outcome

\* tmdb_to_imdb: the converted id, None when the service finds nothing or raises
tmdb_to_imdb(outcome) ==
    IF outcome = "raise" \/ ~Truthy(outcome) THEN None ELSE outcome

\* What Trakt does for _get_show_status: "raise", "nosearch" (no search
\* result), "notshow" (the result is not a show), "http" (no 200 response)
\* or "ok" with the show's status string.
Trakt(kind, status) == [kind |-> kind, status |-> status]

TraktOutcomes ==
    { Trakt("raise", ""), Trakt("nosearch", ""), Trakt("notshow", ""), Trakt("http", ""),
      Trakt("ok", "ended"), Trakt("ok", "Ended"), Trakt("ok", "canceled"),
      Trakt("ok", "returning series"), Trakt("ok", "") }

\* str.lower()
Lower(s) == IF s = "Ended" THEN "ended" ELSE s

\* a status lookup that reports a canceled show as it is
get_show_status_raw(trakt) ==
    IF trakt.kind # "ok" THEN "" ELSE Lower(trakt.status)

\* _get_show_status
get_show_status(trakt) ==
    IF trakt.kind # "ok" THEN ""
    ELSE IF Lower(trakt.status) = "canceled" THEN "ended" ELSE Lower(trakt.status)

\* a normalisation that leaves every media type as it is
normalize_media_type_unchanged(media_type) == media_type

\* _normalize_media_type
normalize_media_type(media_type) == IF media_type = "show" THEN "tv" ELSE media_type

\* a removal rule that forgets the keep_series flag
should_remove_item_no_keep(item_state, media_type, removal, keep, trakt) ==
    IF item_state # "Collected" \/ ~removal THEN [remove |-> FALSE, lookups |-> 0]
    ELSE IF media_type = "tv"
         THEN [remove |-> get_show_status(trakt) = "ended", lookups |-> 1]
         ELSE [remove |-> TRUE, lookups |-> 0]

\* a removal rule that does not look at the removal setting
should_remove_item_flag_ignored(item_state, media_type, removal, keep, trakt) ==
    IF item_state # "Collected" THEN [remove |-> FALSE, lookups |-> 0]
    ELSE IF media_type = "tv"
         THEN IF keep THEN [remove |-> FALSE, lookups |-> 0]
              ELSE [remove |-> get_show_status(trakt) = "ended", lookups |-> 1]
         ELSE [remove |-> TRUE, lookups |-> 0]

\* _should_remove_item: the decision and the number of show-status lookups made
should_remove_item(item_state, media_type, removal, keep, trakt) ==
    IF item_state # "Collected" \/ ~removal THEN [remove |-> FALSE, lookups |-> 0]
    ELSE IF media_type = "tv"
         THEN IF keep THEN [remove |-> FALSE, lookups |-> 0]
              ELSE [remove |-> get_show_status(trakt) = "ended", lookups |-> 1]
         ELSE [remove |-> TRUE, lookups |-> 0]

\* a presence map whose missing ids count as collected
presence_get_collected(pm, imdb_id) == IF imdb_id \in DOMAIN pm THEN pm[imdb_id] ELSE "Collected"

\* presence_map.get(imdb_id, "Not Found")
presence_get(pm, imdb_id) == IF imdb_id \in DOMAIN pm THEN pm[imdb_id] ELSE "Not Found"

\* the imdb_ids process_items collects for the batch query
batch_ids(rs) ==
    { rs[i].imdb_id : i \in { j \in DOMAIN rs : Truthy(rs[j].imdb_id) /\ ~Truthy(rs[j].error) } }

\* get_media_items_presence_batch: the library's state of each id asked for
get_media_items_presence_batch(lib, ids) == [id \in ids |-> lib[id]]

\* a processor that drops an item whose removal call failed
after_failed_removal_drop(wanted, item) == wanted

\* _process_single_item after a failed removal call: the item is built and returned
after_failed_removal(wanted, item) == Append(wanted, item)

\* _remove_from_watchlist: whether it succeeded, and the one
\* removeFromWatchlist call it made
remove_from_watchlist(accountOk) == [success |-> accountOk, calls |-> 1]

\* a wanted item built without the id
WantedItem_without_id(imdb_id, media_type) ==
    [imdb_id |-> None, media_type |-> media_type, content_source_detail |-> "user"]

\* the dict _process_single_item returns for a wanted item
WantedItem(imdb_id, media_type) ==
    [imdb_id |-> imdb_id, media_type |-> media_type, content_source_detail |-> "user"]

\* what happened to one result: the counter it incremented ("none" when it
\* incremented none), whether it was returned as wanted, and the calls made
\* (conv: the number of tmdb_to_imdb calls, and what DirectAPI did in it)
Outcome(counted, wanted, imdb, mt, state, conv, look, trakt, rem, remOk) ==
    [counted |-> counted, wanted |-> wanted, imdb_id |-> imdb, media_type |-> mt,
     item_state |-> state, conversions |-> conv.calls, conv |-> conv.api,
     lookups |-> look, trakt |-> trakt, removals |-> rem, removed_ok |-> remOk]

NoTrakt == Trakt("raise", "")

Skipped(conv) == Outcome("skipped", FALSE, None, None, "", conv, 0, NoTrakt, 0, FALSE)

Bump(st, counter) == [st EXCEPT ![counter] = @ + 1]

\* a processor that does not look at the error of a result
has_error_never(r) == FALSE

\* _process_single_item: item_details.get("error")
has_error(r) == Truthy(r.error)

\* a processor that converts whenever there is a TMDB id
needs_conversion_any_tmdb(r, media_type) ==
    ~has_error(r) /\ Truthy(r.tmdb_id) /\ Truthy(media_type)

\* _process_single_item: if not imdb_id and tmdb_id and media_type,
\* reached only by results without error
needs_conversion(r, media_type) ==
    ~has_error(r) /\ ~Truthy(r.imdb_id) /\ Truthy(r.tmdb_id) /\ Truthy(media_type)

\* a processor that asks the presence collaborator once per id
BatchPresence_per_id(fails) ==
    /\ ppc = "start"
    /\ presence_map' = IF fails THEN <<>>
                       ELSE get_media_items_presence_batch(library, batch_ids(results))
    /\ presenceCalls' = presenceCalls + Cardinality(batch_ids(results))
    /\ ppc' = "loop"
    /\ UNCHANGED <<acct, cacheVars, coordVars, fetchVars, results, removal_enabled, keep_series, library,
                   idx, wanted_items, stats, trace>>

\* process_items up to the loop: the batched presence query
BatchPresence(fails) ==
    /\ ppc = "start"
    /\ presence_map' = IF fails THEN <<>>
                       ELSE get_media_items_presence_batch(library, batch_ids(results))
    /\ presenceCalls' = presenceCalls + 1
    /\ ppc' = "loop"
    /\ UNCHANGED <<acct, cacheVars, coordVars, fetchVars, results, removal_enabled, keep_series, library,
                   idx, wanted_items, stats, trace>>

\* _process_single_item for results[idx]; conv, trakt and accountOk are what
\* the conversion service, Trakt and removeFromWatchlist do if they are called
ProcessItem(conv, trakt, accountOk) ==
    /\ ppc = "loop"
    /\ idx <= Len(results)
    /\ LET r == results[idx]
           plex == watchlist[r.src]
           media0 == IF Truthy(r.media_type) THEN r.media_type ELSE plex.type
           converts == needs_conversion(r, media0)
           converted == tmdb_to_imdb(conv)
           imdb == IF converts /\ Truthy(converted) THEN converted ELSE r.imdb_id
           nconv == [calls |-> IF converts THEN 1 ELSE 0,
                     api |-> conv]
           media == normalize_media_type(media0)
           state == presence_get(presence_map, imdb)
           judged == ~has_error(r) /\ Truthy(imdb)
           dec == IF judged
                  THEN should_remove_item(state, media, removal_enabled, keep_series, trakt)
                  ELSE [remove |-> FALSE, lookups |-> 0]
           rem == remove_from_watchlist(accountOk)
           kept == state = "Collected" /\ removal_enabled
       IN /\ converts \/ conv = None
          /\ dec.lookups > 0 \/ trakt = NoTrakt
          /\ dec.remove \/ accountOk
          /\ IF has_error(r)
             THEN /\ stats' = Bump(stats, "skipped")
                  /\ trace' = Append(trace, Skipped([calls |-> 0, api |-> None]))
                  /\ wanted_items' = wanted_items
             ELSE IF ~Truthy(imdb)
             THEN /\ stats' = Bump(stats, "skipped")
                  /\ trace' = Append(trace, Skipped(nconv))
                  /\ wanted_items' = wanted_items
             ELSE IF dec.remove /\ rem.success
             THEN /\ stats' = Bump(stats, "removed")
                  /\ trace' = Append(trace, Outcome("removed", FALSE, imdb, media, state,
                                        nconv, dec.lookups, trakt, rem.calls, TRUE))
                  /\ wanted_items' = wanted_items
             ELSE IF dec.remove
             THEN /\ stats' = stats
                  /\ wanted_items' = after_failed_removal(wanted_items, WantedItem(imdb, media))
                  /\ trace' = Append(trace, Outcome("none", wanted_items' # wanted_items,
                                        imdb, media, state, nconv, dec.lookups, trakt,
                                        rem.calls, FALSE))
             ELSE /\ stats' = IF kept THEN Bump(stats, "collected_kept") ELSE stats
                  /\ trace' = Append(trace, Outcome(IF kept THEN "collected_kept" ELSE "none",
                                        TRUE, imdb, media, state, nconv, dec.lookups, trakt,
                                        0, FALSE))
                  /\ wanted_items' = Append(wanted_items, WantedItem(imdb, media))
    /\ idx' = idx + 1
    /\ UNCHANGED <<acct, cacheVars, coordVars, fetchVars, results, removal_enabled, keep_series, library,
                   ppc, presence_map, presenceCalls>>

\* the end of process_items
Finish ==
    /\ ppc = "loop"
    /\ idx > Len(results)
    /\ stats' = [stats EXCEPT !.processed = Len(wanted_items)]
    /\ ppc' = "done"
    /\ UNCHANGED <<acct, cacheVars, coordVars, fetchVars, results, removal_enabled, keep_series, library,
                   idx, presence_map, presenceCalls, wanted_items, trace>>

ProcNext ==
    \/ \E fails \in BOOLEAN : BatchPresence(fails)
    \/ \E conv \in ConvOutcomes, trakt \in TraktOutcomes, accountOk \in BOOLEAN :
          ProcessItem(conv, trakt, accountOk)
    \/ Finish

\* the Plex items and the details fetched for them that process_items is given
MovieItem == WItem("g1", TRUE, "movie", "A", "ok")
ShowItem == WItem("g2", TRUE, "show", "B", "ok")

ProcDetails ==
    { <<"tt1", None, "movie", None>>,
      <<"tt2", "55", "show", None>>,
      <<None, "55", "show", None>>,
      <<None, "77", "movie", None>>,
      <<None, None, None, "Timeout">>,
      <<"tt1", None, "movie", "HTTP500">>,
      <<None, None, None, None>> }

\* the details come with their item; details without a media type come with
\* an item of either type.  The details with both an id and an error are
\* those of a cache file entry holding both, which
\* _reconstruct_item_from_cache hands on as it finds them.
ProcPairs ==
    ({MovieItem} \X ProcDetails)
    \cup ({MovieItem, ShowItem} \X { <<"tt1", None, None, None>>, <<None, "77", None, None>> })

ProcInputs == SeqsUpTo(ProcPairs, MaxResults)

ProcIds == {"tt1", "tt2", "tt3"}

ProcInit ==
    /\ cache = <<>>
    /\ max_entries = 1
    /\ now = 0
    /\ last = NoCall
    /\ shadow = [k \in CacheKeys |-> NoSet]
    /\ ops = 0
    /\ disk = <<>>
    /\ \E inp \in ProcInputs :
          /\ watchlist = [i \in DOMAIN inp |-> inp[i][1]]
          /\ results = [i \in DOMAIN inp |->
                           Result(inp[i][2][1], inp[i][2][2], inp[i][2][3], i, inp[i][2][4])]
    /\ pc = "idle"
    /\ run = 0
    /\ cached_items = <<>>
    /\ items_to_fetch = <<>>
    /\ tasks = <<>>
    /\ setIdx = 0
    /\ commits = 0
    /\ requests = {}
    /\ out = NoOut
    /\ removal_enabled \in BOOLEAN
    /\ keep_series \in BOOLEAN
    /\ library \in [ProcIds -> {"Collected", "Not Found"}]
    /\ ppc = "start"
    /\ idx = 1
    /\ presence_map = <<>>
    /\ presenceCalls = 0
    /\ wanted_items = <<>>
    /\ stats = [skipped |-> 0, removed |-> 0, collected_kept |-> 0, processed |-> 0]
    /\ trace = <<>>
    /\ FetchIdle
    /\ NoFile
    /\ acct = NoAcct

SpecProc == ProcInit /\ [][ProcNext]_vars

\* ------------------- the fetchers: WatchlistFetcher (plex_watchlist/fetcher.py)
\* ------------------- and run_async_fetches (watchlist/fetcher.py)
\* WatchlistFetcher.__init__: batch_size
batch_size == 100

\* WatchlistFetcher.fetch_all: the length above which it fetches in batches
BatchThreshold == 500

\* a batch count that leaves the last, partial batch out
total_batches_floor(n) == n \div batch_size

\* _fetch_in_batches: total_batches
total_batches(n) == (n + batch_size - 1) \div batch_size

\* _fetch_in_batches: batch_num of the batch at offset i
batch_num(i) == (i \div batch_size) + 1

\* whether the run goes through _fetch_in_batches: only WatchlistFetcher.fetch_all
\* has that path, run_async_fetches of watchlist/fetcher.py gathers every item at once
InBatches == fetcher = "WatchlistFetcher" /\ n_items > BatchThreshold

\* len(items[i : i + batch_size])
SliceLen(n, i) == IF n - i < batch_size THEN n - i ELSE batch_size

\* fetch_all / run_async_fetches up to the first gather: an empty list returns at once
FetchAll ==
    /\ fpc = "idle"
    /\ fpc' = IF n_items = 0 THEN "done" ELSE "issue"
    /\ UNCHANGED <<acct, cacheVars, coordVars, procVars, fetcher, n_items, batch_i, batch_len,
                   settled, batches, pauses, all_results>>

\* the tasks of one batch are created and gathered: the slice at batch_i in
\* _fetch_in_batches, the whole list otherwise
IssueBatch ==
    /\ fpc = "issue"
    /\ batch_len' = IF InBatches THEN SliceLen(n_items, batch_i) ELSE n_items
    /\ settled' = 0
    /\ batches' = batches + 1
    /\ fpc' = "gather"
    /\ UNCHANGED <<acct, cacheVars, coordVars, procVars, fetcher, n_items, batch_i, pauses,
                   all_results>>

\* one request of the gathered batch settles (a result or an error result)
SettleOne ==
    /\ fpc = "gather"
    /\ settled < batch_len
    /\ settled' = settled + 1
    /\ UNCHANGED <<acct, cacheVars, coordVars, procVars, fetcher, n_items, fpc, batch_i,
                   batch_len, batches, pauses, all_results>>

\* gather returns once every request of the batch has settled; in
\* _fetch_in_batches the results are appended and, unless this was the last
\* batch, asyncio.sleep(1) is awaited
GatherReturns ==
    /\ fpc = "gather"
    /\ settled = batch_len
    /\ all_results' = all_results + batch_len
    /\ IF InBatches /\ batch_num(batch_i) < total_batches(n_items)
       THEN /\ fpc' = "sleep"
            /\ pauses' = pauses + 1
            /\ batch_i' = batch_i
       ELSE IF InBatches /\ batch_i + batch_size < n_items
       THEN /\ fpc' = "issue"
            /\ pauses' = pauses
            /\ batch_i' = batch_i + batch_size
       ELSE /\ fpc' = "done"
            /\ pauses' = pauses
            /\ batch_i' = batch_i
    /\ UNCHANGED <<acct, cacheVars, coordVars, procVars, fetcher, n_items, batch_len, settled,
                   batches>>

\* the sleep ends and the loop goes on to its next offset (range(0, len, batch_size))
Wake ==
    /\ fpc = "sleep"
    /\ IF batch_i + batch_size < n_items
       THEN fpc' = "issue" /\ batch_i' = batch_i + batch_size
       ELSE fpc' = "done" /\ batch_i' = batch_i
    /\ UNCHANGED <<acct, cacheVars, coordVars, procVars, fetcher, n_items, batch_len, settled,
                   batches, pauses, all_results>>

FetchNext == FetchAll \/ IssueBatch \/ SettleOne \/ GatherReturns \/ Wake

\* the lengths of the list the fetchers are run on
FetchSizes == {0, 1, batch_size, BatchThreshold, BatchThreshold + 1, 600, 1200}

FetchInit ==
    /\ cache = <<>>
    /\ max_entries = 1
    /\ now = 0
    /\ last = NoCall
    /\ shadow = [k \in CacheKeys |-> NoSet]
    /\ ops = 0
    /\ disk = <<>>
    /\ NoFile
    /\ acct = NoAcct
    /\ CoordIdle
    /\ ProcIdle
    /\ fetcher \in {"WatchlistFetcher", "run_async_fetches"}
    /\ n_items \in FetchSizes
    /\ fpc = "idle"
    /\ batch_i = 0
    /\ batch_len = 0
    /\ settled = 0
    /\ batches = 0
    /\ pauses = 0
    /\ all_results = 0

SpecFetch == FetchInit /\ [][FetchNext]_vars

\* ------------------------------------------------------------------ claims
LastKey == make_cache_key(last.item)

\* C1: a get(f) made after set(f, e), f still stored, returns e's fields with
\* the stamp of that set while now - cached_at < max_age; once
\* now - cached_at >= max_age it returns None and f leaves the store.
TTLContract ==
    [][ (/\ last'.op = "get"
         /\ make_cache_key(last'.item) # NoKey
         /\ shadow[make_cache_key(last'.item)] # NoSet
         /\ make_cache_key(last'.item) \in KeysOf(cache))
        => LET k == make_cache_key(last'.item) IN
           IF now - shadow[k].at < MaxAge
           THEN /\ last'.ret.hit
                /\ Fields(last'.ret.entry) = shadow[k].fields
                /\ last'.ret.entry.cached_at = shadow[k].at
                /\ k \in KeysOf(cache')
           ELSE /\ ~last'.ret.hit
                /\ k \notin KeysOf(cache') ]_vars

\* a get that found the entry of an earlier set expired and purged it
TTLExpiredWitness ==
    /\ last.op = "get"
    /\ LastKey # NoKey
    /\ shadow[LastKey] # NoSet
    /\ now - shadow[LastKey].at >= MaxAge
    /\ ~last.ret.hit
    /\ LastKey \notin KeysOf(cache)

\* C2: after each set returns, the store holds at most max_entries entries.
CapacityInvariant ==
    last.op = "set" => Len(cache) <= max_entries

Max(a, b) == IF a > b THEN a ELSE b
Min(a, b) == IF a < b THEN a ELSE b

\* C3: a set on a store of size >= max_entries removes max(1, max_entries
\* div 10) entries (all of them if fewer exist), none newer than any entry it
\* keeps, then inserts; a set on a smaller store removes nothing.
EvictionChoice ==
    [][ (last'.op = "set" /\ make_cache_key(last'.item) # NoKey)
        => LET k == make_cache_key(last'.item)
               ev == last'.evicted
               n == IF Len(cache) >= max_entries
                    THEN Min(Max(1, max_entries \div 10), Len(cache))
                    ELSE 0
           IN /\ ev \subseteq KeysOf(cache)
              /\ Cardinality(ev) = n
              /\ \A r \in ev, s \in KeysOf(cache) \ ev :
                    EntryOf(cache, r).cached_at <= EntryOf(cache, s).cached_at
              /\ KeysOf(cache') = (KeysOf(cache) \ ev) \cup {k}
              /\ \A s \in KeysOf(cache) \ (ev \cup {k}) :
                    EntryOf(cache', s) = EntryOf(cache, s) ]_vars

\* a set that evicted two entries, older than one it kept
EvictionWitness ==
    /\ last.op = "set"
    /\ Cardinality(last.evicted) = 2
    /\ \E s \in KeysOf(cache) : EntryOf(cache, s).cached_at = 1

\* ------------------------------------------------------ coordinator claims
KeyAt(i) == make_cache_key(watchlist[i])

Fetched == gather_results(tasks)

WellTagged(r) ==
    \/ r.error = None /\ (r.imdb_id # None \/ r.tmdb_id # None)
    \/ r.error # None /\ r.imdb_id = None /\ r.tmdb_id = None /\ r.media_type = None

\* C4: when every entry of the watchlist is addressable and none is a cache
\* hit, fetch_all_item_details returns exactly one result per entry, each a
\* success or an error-tagged result, whichever fetches failed.
NoItemDropped ==
    (/\ pc = "done"
     /\ cached_items = <<>>
     /\ \A i \in DOMAIN watchlist : watchlist[i].addr = "ok")
    => /\ Len(out.items) = Len(watchlist)
       /\ out.total_items = Len(watchlist)
       /\ \A i \in DOMAIN watchlist :
            Cardinality({ j \in DOMAIN out.items : out.items[j].src = i }) = 1
       /\ \A j \in DOMAIN out.items : WellTagged(out.items[j])

\* a run of two fetches, one failed and one successful, has returned
NoItemDroppedWitness ==
    /\ pc = "done"
    /\ Len(watchlist) = 2
    /\ cached_items = <<>>
    /\ \A i \in DOMAIN watchlist : watchlist[i].addr = "ok"
    /\ \E j, k \in DOMAIN out.items : out.items[j].error # None /\ out.items[k].error = None

\* at the end of a run that fetched: the error of a fetched result is in the
\* cache under its key, unless a later set of the run overwrote or evicted it
ErrorWritten ==
    \A j \in DOMAIN Fetched :
        LET r == Fetched[j]
            k == KeyAt(r.src)
        IN (/\ r.error # None
            /\ k # NoKey
            /\ \A j2 \in DOMAIN Fetched : j2 > j => KeyAt(Fetched[j2].src) # k
            /\ k \in KeysOf(cache))
           => /\ EntryOf(cache, k).error = r.error
              /\ EntryOf(cache, k).cached_at = now

\* at the start of a run: an entry whose key holds the error written by the
\* last set for it, younger than max_age, becomes a hit with that error and
\* is not put on the fetch list
ErrorServed ==
    \A i \in DOMAIN watchlist :
        LET k == KeyAt(i) IN
        (/\ k # NoKey
         /\ k \in KeysOf(cache)
         /\ shadow[k] # NoSet
         /\ shadow[k].fields[4] # None
         /\ now - shadow[k].at < MaxAge)
        => /\ \E j \in DOMAIN cached_items' :
                cached_items'[j].src = i /\ cached_items'[j].error = shadow[k].fields[4]
           /\ \A j \in DOMAIN items_to_fetch' : items_to_fetch'[j] # i

\* a GET is sent only for entries on the fetch list, never for a hit
RequestsOnlyForMisses ==
    /\ \A i \in requests : \E j \in DOMAIN items_to_fetch : items_to_fetch[j] = i
    /\ \A j \in DOMAIN cached_items : cached_items[j].src \notin requests

\* C5: a fetch that ended in an error leaves that error in the cache, and
\* every later run within max_age (the entry not evicted) serves it as a hit
\* with the same error, sending no request for it.
ErrorsCached ==
    [][ /\ (pc' = "done" /\ commits' = 1) => ErrorWritten'
        /\ run' = run + 1 => ErrorServed
        /\ RequestsOnlyForMisses' ]_vars

\* a second run served a cached error as a hit and sent no request at all
ErrorsCachedWitness ==
    /\ run = 2
    /\ pc = "done"
    /\ requests = {}
    /\ \E j \in DOMAIN cached_items :
          /\ cached_items[j].error # None
          /\ cached_items[j].error = shadow[KeyAt(cached_items[j].src)].fields[4]

\* the lookup of entry i returns a stored, non-expired entry
Fresh(i) ==
    /\ KeyAt(i) # NoKey
    /\ KeyAt(i) \in KeysOf(cache)
    /\ EntryOf(cache, KeyAt(i)).cached_at # Missing
    /\ now - EntryOf(cache, KeyAt(i)).cached_at < MaxAge

\* C6: the entries a detail request is sent for and the entries whose lookup
\* hit are disjoint; each hit yields one result with the cache entry's
\* identifiers, media type and error and the looked-up entry as its source.
HitMeansNoFetch ==
    [][ /\ run' = run + 1 =>
            \A i \in DOMAIN watchlist :
                Fresh(i) =>
                  /\ Cardinality({ j \in DOMAIN cached_items' : cached_items'[j].src = i }) = 1
                  /\ \A j \in DOMAIN cached_items' :
                        cached_items'[j].src = i =>
                           <<cached_items'[j].imdb_id, cached_items'[j].tmdb_id,
                             cached_items'[j].media_type, cached_items'[j].error>>
                              = Fields(EntryOf(cache, KeyAt(i)))
                  /\ \A j \in DOMAIN items_to_fetch' : items_to_fetch'[j] # i
        /\ \A j \in DOMAIN cached_items' : cached_items'[j].src \notin requests' ]_vars

\* a run with one hit and one fetched entry has returned
HitMeansNoFetchWitness ==
    /\ pc = "done"
    /\ Len(cached_items) = 1
    /\ Cardinality(requests) = 1
    /\ out.cache_hits = 1
    /\ out.fetched_count = 1

\* C7 as stated: every invocation calls commit() exactly once.
CommitExactlyOnce ==
    pc = "done" => commits = 1

\* C7, amended: an invocation calls commit() once if it fetched anything and
\* not at all otherwise; the call, like every cache set, comes after every
\* fetch has settled, and after the last set.
CommitAfterFetches ==
    /\ commits <= 1
    /\ pc = "done" => commits = (IF Len(items_to_fetch) > 0 THEN 1 ELSE 0)
    /\ pc = "fetching" => commits = 0
    /\ (setIdx > 0 \/ commits > 0) => \A j \in DOMAIN tasks : tasks[j].st = "settled"
    /\ commits = 1 => setIdx = Len(items_to_fetch)
    /\ (commits = 1 /\ saved.w = "ok") => (file = "object" /\ disk = json_dump(cache))

\* a run that fetched two items has committed, once, after both sets
CommitAfterFetchesWitness ==
    /\ pc = "done"
    /\ commits = 1
    /\ Len(items_to_fetch) = 2
    /\ setIdx = 2

\* -------------------------------------------------------- processor claims
\* the processed results that were looked up as collected with removal on
CollectedMovie(o) ==
    removal_enabled /\ o.item_state = "Collected" /\ o.media_type = "movie"

CollectedSeries(o) ==
    removal_enabled /\ o.item_state = "Collected" /\ o.media_type = "tv"

InWanted(o) ==
    \E j \in DOMAIN wanted_items :
        wanted_items[j].imdb_id = o.imdb_id /\ wanted_items[j].media_type = o.media_type

EndedOrCanceled(trakt) ==
    trakt.kind = "ok" /\ Lower(trakt.status) \in {"ended", "canceled"}

\* C9: a collected series, keep_series unset, gets a removal call (and is
\* removed) only when the status lookup returns ended or canceled; for any
\* other status, the empty status of a failed lookup included, it is counted
\* as kept and no removal call is made.
SeriesRemovalByStatus ==
    \A i \in DOMAIN trace :
        (CollectedSeries(trace[i]) /\ ~keep_series) =>
            /\ trace[i].lookups = 1
            /\ EndedOrCanceled(trace[i].trakt) =>
                  /\ trace[i].removals = 1
                  /\ trace[i].removed_ok => trace[i].counted = "removed"
            /\ ~EndedOrCanceled(trace[i].trakt) =>
                  /\ trace[i].counted = "collected_kept"
                  /\ trace[i].removals = 0
            /\ trace[i].counted = "removed" => EndedOrCanceled(trace[i].trakt)

\* a canceled series was removed, and a series whose lookup raised was kept
SeriesRemovalByStatusWitness ==
    /\ ~keep_series
    /\ \E i, j \in DOMAIN trace :
          /\ CollectedSeries(trace[i])
          /\ trace[i].trakt = Trakt("ok", "canceled")
          /\ trace[i].counted = "removed"
          /\ CollectedSeries(trace[j])
          /\ trace[j].trakt = Trakt("raise", "")
          /\ trace[j].counted = "collected_kept"

FailedRemoval(o) == o.removals > 0 /\ ~o.removed_ok

CountOf(counter) == Cardinality({ i \in DOMAIN trace : trace[i].counted = counter })

Processed == DOMAIN trace

HasError(i) == Truthy(results[i].error)

\* C11: with removal disabled no removal call and no show-status lookup is
\* made, and every result without error whose IMDB id was resolved is
\* returned as wanted, uncounted, whatever its presence state.
RemovalDisabled ==
    ~removal_enabled =>
        \A i \in Processed :
            /\ trace[i].removals = 0
            /\ trace[i].lookups = 0
            /\ (~HasError(i) /\ Truthy(trace[i].imdb_id)) =>
                  /\ trace[i].wanted
                  /\ trace[i].counted = "none"
                  /\ InWanted(trace[i])

\* with removal disabled, a collected movie was returned as wanted
RemovalDisabledWitness ==
    /\ ppc = "done"
    /\ ~removal_enabled
    /\ \E i \in Processed :
          /\ trace[i].item_state = "Collected"
          /\ trace[i].media_type = "movie"
          /\ trace[i].wanted
    /\ stats.processed = Len(results)

\* C12: when process_items returns, every result has exactly one outcome:
\* skipped + removed + collected_kept + processed is the number of results,
\* and no result counted as kept-collected is in the wanted list.
OneOutcomePerItem ==
    ppc = "done" =>
        /\ stats.skipped + stats.removed + stats.collected_kept + stats.processed
              = Len(results)
        /\ \A i \in Processed : trace[i].counted = "collected_kept" => ~trace[i].wanted

MediaOf(i) ==
    IF Truthy(results[i].media_type) THEN results[i].media_type
    ELSE watchlist[results[i].src].type

\* results with no error and no IMDB id, but a TMDB id and a media type
NeedsConversion(i) ==
    /\ ~HasError(i)
    /\ ~Truthy(results[i].imdb_id)
    /\ Truthy(results[i].tmdb_id)
    /\ Truthy(MediaOf(i))

ErrorResultsSkipped ==
    /\ \A i \in Processed :
          HasError(i) =>
              /\ trace[i].counted = "skipped"
              /\ ~trace[i].wanted
              /\ trace[i].conversions = 0
              /\ trace[i].lookups = 0
              /\ trace[i].removals = 0
    /\ stats.skipped = CountOf("skipped")

\* a run over a timed-out result and an error result that holds the id of a
\* collected movie skipped both
ErrorResultsSkippedWitness ==
    /\ ppc = "done"
    /\ removal_enabled
    /\ Len(results) = 2
    /\ results[1].error = "Timeout"
    /\ results[2].error = "HTTP500" /\ library[results[2].imdb_id] = "Collected"
    /\ stats.skipped = 2
    /\ wanted_items = <<>>

\* C16: process_items calls the presence collaborator exactly once, before
\* its loop, whatever the number of results, and never while it goes
\* through the results.
SingleBatchLookup ==
    /\ ppc = "start" => presenceCalls = 0
    /\ ppc \in {"loop", "done"} => presenceCalls = 1

\* a run over two results whose presence state was looked up made one call
SingleBatchLookupWitness ==
    /\ ppc = "done"
    /\ Len(results) = 2
    /\ \A i \in Processed : trace[i].item_state \in {"Collected", "Not Found"}
    /\ trace[1].imdb_id # trace[2].imdb_id
    /\ presenceCalls = 1

\* C17: when the batched presence lookup has answered, the presence state
\* used for every result whose IMDB id was resolved, by extraction or by
\* conversion, is the state the library holds for that id.
PresenceCoversResolvedIds ==
    presence_map # <<>> =>
        \A i \in Processed :
            (~HasError(i) /\ Truthy(trace[i].imdb_id)) =>
                trace[i].item_state = library[trace[i].imdb_id]

\* the wanted item of result i has media type mt
WantedWithType(i, mt) ==
    /\ trace[i].media_type = mt
    /\ \E j \in DOMAIN wanted_items : wanted_items[j] = WantedItem(trace[i].imdb_id, mt)

\* C18 as stated: in every wanted item the type "show" has become "series"
\* and any other type is unchanged, the type being the result's or, when
\* the result has none, the watchlist entry's.
ShowNormalizedToSeries ==
    \A i \in Processed :
        trace[i].wanted =>
            WantedWithType(i, IF MediaOf(i) = "show" THEN "series" ELSE MediaOf(i))

\* C18, amended: in every wanted item the type "show" has become "tv" and
\* any other type is unchanged, the type being the result's or, when the
\* result has none, the watchlist entry's.
ShowNormalizedToTv ==
    /\ \A i \in Processed :
          trace[i].wanted =>
              WantedWithType(i, IF MediaOf(i) = "show" THEN "tv" ELSE MediaOf(i))
    /\ \A j \in DOMAIN wanted_items : wanted_items[j].media_type # "show"

\* a result without media type for a show entry, and a movie result, were
\* returned as "tv" and "movie"
ShowNormalizedWitness ==
    /\ ppc = "done"
    /\ Len(wanted_items) = 2
    /\ results[1].media_type = None /\ watchlist[1].type = "show"
    /\ wanted_items[1].media_type = "tv"
    /\ results[2].media_type = "movie"
    /\ wanted_items[2].media_type = "movie"

\* ---------------------------------------------------------- fetcher claims
\* the least k with k * 100 >= n
CeilHundredths(n) == CHOOSE k \in 0..(n \div 100 + 1) : k * 100 >= n /\ (k - 1) * 100 < n

\* what a fetch of more than 500 requests in sequential batches of at most 100 is
SequentialBatches ==
    /\ batch_len <= 100
    /\ fpc \in {"issue", "sleep"} => pauses = batches
    /\ fpc = "gather" => pauses = batches - 1
    /\ fpc = "done" =>
          /\ batches = CeilHundredths(n_items)
          /\ pauses = CeilHundredths(n_items) - 1
          /\ all_results = n_items

\* a batch is only issued once every request of the batch before it has settled
BatchAfterBatch == batches' > batches => settled = batch_len

\* C19: for more than 500 requests WatchlistFetcher.fetch_all issues
\* ceil(n / 100) batches of at most 100 requests, each after every request
\* of the one before has settled, and sleeps after every batch but the
\* last; 1200 requests make 12 batches and 11 pauses.
BatchCountAndPauses ==
    /\ [](fetcher = "WatchlistFetcher" /\ n_items > 500 => SequentialBatches)
    /\ [](fetcher = "WatchlistFetcher" /\ n_items = 1200 /\ fpc = "done"
            => batches = 12 /\ pauses = 11)
    /\ [][fetcher = "WatchlistFetcher" /\ n_items > 500 => BatchAfterBatch]_vars

\* 1200 requests were fetched in 12 batches with 11 pauses
BatchCountWitness ==
    /\ fetcher = "WatchlistFetcher"
    /\ fpc = "done"
    /\ n_items = 1200
    /\ batches = 12
    /\ pauses = 11
    /\ all_results = 1200

\* C20: the fetcher the coordinator calls, run_async_fetches of
\* watchlist/fetcher.py, fetches more than 500 items in sequential batches
\* of 100 and at most 500 items as one batch with no pause.
CoordinatorPathBatches ==
    fetcher = "run_async_fetches" =>
        /\ n_items > 500 => SequentialBatches
        /\ (n_items <= 500 /\ fpc = "done") =>
              /\ batches = (IF n_items = 0 THEN 0 ELSE 1)
              /\ pauses = 0
              /\ all_results = n_items

\* ---------------------------------------------------- fetch phase claims
Settled(j) == tasks[j].st = "settled"

\* the request failed: a timeout, another exception, a status other than
\* 200 or a body that is not well-formed XML
FailedRequest(resp) ==
    \/ resp.kind \in {"timeout", "exc"}
    \/ resp.kind = "http" /\ resp.status # 200
    \/ resp.kind = "http" /\ resp.status = 200 /\ resp.body.xml # "ok"

\* one step of the fetch phase settles one task and leaves the others as they were
OneTaskSettles ==
    (pc = "fetching" /\ pc' = "fetching" /\ tasks' # tasks) =>
        \E j \in DOMAIN tasks :
            /\ ~Settled(j)
            /\ tasks'[j].st \in {"inflight", "settled"}
            /\ \A k \in DOMAIN tasks \ {j} : tasks'[k] = tasks[k]

\* C21: a request that times out, gets a status other than 200, gets an
\* unparsable body or raises gives an error result for its own item; the
\* result of a settled request never changes and depends on its own
\* response only; the cache is written, and the run returns, only once
\* every request has settled.
FailureIsolation ==
    /\ [](\A j \in DOMAIN tasks :
            Settled(j) =>
               /\ tasks[j].res.src = items_to_fetch[j]
               /\ FailedRequest(tasks[j].resp) =>
                     tasks[j].res.error # None /\ tasks[j].res.imdb_id = None
               /\ tasks[j].resp = RImdb =>
                     tasks[j].res.error = None /\ tasks[j].res.imdb_id = "tt1")
    /\ []((setIdx > 0 \/ (pc = "done" /\ tasks # <<>>)) => \A j \in DOMAIN tasks : Settled(j))
    /\ [][OneTaskSettles]_vars

\* a run returned the result of a request that succeeded after another had timed out
FailureIsolationWitness ==
    /\ pc = "done"
    /\ Len(tasks) = 2
    /\ tasks[1].resp = RTimeout /\ tasks[1].res.error = "Timeout"
    /\ tasks[2].resp = RImdb /\ tasks[2].res.error = None /\ tasks[2].res.imdb_id = "tt1"
    /\ Len(out.items) = 2

\* C22: never more than the connector's limit of requests are in flight,
\* and every request of the fetch list has been issued by the time the
\* gather returns.
BoundedConcurrency ==
    /\ Cardinality(InFlight) <= ConnLimit
    /\ (pc = "fetching" /\ gather_returned(tasks)) =>
          requests = { items_to_fetch[j] : j \in DOMAIN items_to_fetch }

\* a 200 response whose body is not well-formed, or has no MediaContainer
\* root, or no Video or Directory element in it
NoMediaStructure(resp) ==
    /\ resp.kind = "http" /\ resp.status = 200
    /\ \/ resp.body.xml # "ok"
       \/ resp.body.root # "MediaContainer"
       \/ resp.body.media = "none"

NoIds(r) == r.imdb_id = None /\ r.tmdb_id = None

ErrorTagging ==
    \A j \in DOMAIN tasks :
        Settled(j) =>
            LET resp == tasks[j].resp
                res == tasks[j].res
            IN /\ res.error # None =>
                     \/ resp.kind = "timeout"
                     \/ resp.kind = "http" /\ (resp.status < 200 \/ resp.status > 299)
                     \/ NoMediaStructure(resp)
               /\ res.error # None => NoIds(res) /\ res.media_type = None
               /\ (resp.kind = "http" /\ resp.status = 200 /\ ~NoMediaStructure(resp)) =>
                     res.error = None /\ res.media_type = resp.body.type

\* ----------------------------------------------------- coordinator counts
\* the entries of the watchlist no detail URL can be built for and that
\* were not served from the cache in this run
UnaddressableMisses ==
    { i \in DOMAIN watchlist :
        /\ watchlist[i].addr # "ok"
        /\ \A k \in DOMAIN cached_items : cached_items[k].src # i }

\* C25: an entry that missed the cache and has no detail URL is not on the
\* fetch list, gets no request and no cache write, and is in no returned
\* result; the returned counts satisfy total_items = cache_hits +
\* fetched_count = the number of returned results <= the number of entries.
UnaddressableAndCounts ==
    /\ [](pc # "idle" =>
            \A i \in UnaddressableMisses :
               /\ i \notin requests
               /\ \A j \in DOMAIN items_to_fetch : items_to_fetch[j] # i
               /\ pc = "done" => \A k \in DOMAIN out.items : out.items[k].src # i)
    /\ [](pc = "done" =>
            /\ out.total_items = out.cache_hits + out.fetched_count
            /\ out.total_items = Len(out.items)
            /\ out.cache_hits = Len(cached_items)
            /\ out.fetched_count = Len(items_to_fetch)
            /\ out.total_items <= Len(watchlist))
    /\ [][setIdx' = setIdx + 1 =>
             watchlist[gather_results(tasks)[setIdx'].src].addr = "ok"]_vars

\* a first run over an addressable and an unaddressable entry returned one
\* fetched result and cached nothing for the other
UnaddressableWitness ==
    /\ pc = "done"
    /\ run = 1
    /\ Len(watchlist) = 2
    /\ watchlist[1].guid = "g1" /\ watchlist[1].addr = "ok"
    /\ watchlist[2].addr = "nokey"
    /\ out.total_items = 1 /\ out.fetched_count = 1 /\ out.cache_hits = 0
    /\ KeysOf(cache) = { <<"g1">> }

\* ------------------------------------------------------ cached_at stamps
\* C29: after set(f, e) the entry stored for f carries the time of that
\* call as cached_at, whatever cached_at e carried and whether or not f
\* was stored before.
StampedBySet ==
    [][ (/\ last'.op = "set"
         /\ ops' = ops + 1
         /\ last'.ret.exc = None
         /\ make_cache_key(last'.item) # NoKey)
        => LET k == make_cache_key(last'.item) IN
           /\ k \in KeysOf(cache')
           /\ EntryOf(cache', k).cached_at = now
           /\ Fields(EntryOf(cache', k)) = Fields(last'.details) ]_vars

\* the first call, at time 2, was a set of a dict carrying cached_at 0 on a
\* full two-entry store holding the key: it evicted the other entry and
\* overwrote this one, whose stamp is now 2
StampedBySetWitness ==
    /\ ops = 1
    /\ now = 2
    /\ last.op = "set"
    /\ LastKey = <<"g1">>
    /\ last.details.cached_at = 0
    /\ max_entries = 2
    /\ last.evicted # {}
    /\ Len(cache) = 1
    /\ EntryOf(cache, <<"g1">>).cached_at = 2

\* C30: get on a fingerprint whose stored entry has no cached_at returns
\* None and deletes the entry, whatever the store holds, entries loaded
\* from the file included.
UnstampedNeverValid ==
    [][ (/\ last'.op = "get"
         /\ ops' = ops + 1
         /\ make_cache_key(last'.item) \in KeysOf(cache)
         /\ EntryOf(cache, make_cache_key(last'.item)).cached_at \in {Missing, NotObject})
        => /\ last'.ret = Absent
           /\ make_cache_key(last'.item) \notin KeysOf(cache')
           /\ cache' = DelKey(cache, make_cache_key(last'.item)) ]_vars

\* ------------------------------------------------------------ persistence
\* a cache object has just been built
Constructed == store = "unbuilt" /\ store' # "unbuilt"

\* C26: building a cache over a file that is missing, unreadable, not
\* valid JSON or not a JSON object gives an empty store and does not raise.
CorruptDegrades ==
    [][ (Constructed /\ file # "object") => (store' = "built" /\ cache' = <<>>) ]_vars

\* C27: a commit whose write fails does not raise and leaves the store,
\* its capacity and the clock, all that get and set read, as a commit that
\* succeeds leaves them; the coordinator returns every result all the same.
BestEffortCommit ==
    /\ [](pc # "crashed" /\ store # "raised")
    /\ [][ commits' = commits + 1
           => /\ <<cache, max_entries, now>>' = <<cache, max_entries, now>>
              /\ pc' = "done"
              /\ out'.fetched_count = Len(items_to_fetch)
              /\ Len(out'.items) = Len(cached_items) + Len(items_to_fetch) ]_vars

\* the commit of the first run left a truncated file; the second run, which
\* fetched and committed nothing, served both entries from the store
BestEffortWitness ==
    /\ run = 2
    /\ pc = "done"
    /\ commits = 0
    /\ saved.w = "partial"
    /\ file = "notjson"
    /\ Len(watchlist) = 2
    /\ out.cache_hits = 2
    /\ out.total_items = 2

\* C28: a cache built over the file after a commit whose write succeeded
\* holds the fingerprints of the committed store, in its order, each with
\* the same imdb_id, tmdb_id, media_type, error and cached_at.
RoundTrip ==
    [][ (Constructed /\ saved.w = "ok") => (store' = "built" /\ cache' = saved.cache) ]_vars

\* a store holding a loaded entry without cached_at and an error entry set
\* at time 1 was committed and built again from the file
RoundTripWitness ==
    /\ store = "built"
    /\ last.op = "init"
    /\ saved.w = "ok"
    /\ cache = saved.cache
    /\ Len(cache) = 2
    /\ \E i \in DOMAIN cache : cache[i].val.error = "Timeout" /\ cache[i].val.cached_at = 1
    /\ \E i \in DOMAIN cache : cache[i].val.imdb_id = "tt9" /\ cache[i].val.cached_at = Missing

\* ------------------------------------------------------ conversion calls
\* C34 as stated: the conversion service is called for a result only when
\* the result has no error, no IMDB id, a TMDB id and a media type of its
\* own; never for a result that has an IMDB id; at most once per result.
ConversionOnlyForTypedResult ==
    \A i \in Processed :
        /\ trace[i].conversions <= 1
        /\ Truthy(results[i].imdb_id) => trace[i].conversions = 0
        /\ trace[i].conversions = 1 =>
              /\ ~HasError(i)
              /\ ~Truthy(results[i].imdb_id)
              /\ Truthy(results[i].tmdb_id)
              /\ Truthy(results[i].media_type)

\* C34 amended: the same, the media type being the result's or, when the
\* result has none, the watchlist entry's.
ConversionFallbackOnly ==
    /\ Len(trace) <= Len(results)
    /\ \A i \in Processed :
          /\ trace[i].conversions <= 1
          /\ Truthy(results[i].imdb_id) => trace[i].conversions = 0
          /\ trace[i].conversions = 1 => NeedsConversion(i)

\* a run made no conversion for a result holding both ids and one for a
\* result holding a TMDB id only and no media type
ConversionFallbackWitness ==
    /\ ppc = "done"
    /\ Len(results) = 2
    /\ Truthy(results[1].imdb_id) /\ Truthy(results[1].tmdb_id)
    /\ trace[1].conversions = 0 /\ trace[1].wanted
    /\ ~Truthy(results[2].imdb_id) /\ ~Truthy(results[2].media_type)
    /\ trace[2].conversions = 1 /\ trace[2].conv = "tt3" /\ trace[2].wanted

\* ------------------------------------------------ presence lookup failure
\* C37: when the batched presence lookup raised (the map is empty),
\* process_items goes on: every resolved result is treated as not found,
\* no removal call and no status lookup is made, and every result without
\* error whose IMDB id was resolved is returned as wanted.
PresenceFailureConservative ==
    (ppc \in {"loop", "done"} /\ presence_map = <<>>) =>
        /\ presenceCalls = 1
        /\ stats.removed = 0 /\ stats.collected_kept = 0
        /\ \A i \in Processed :
              /\ trace[i].removals = 0
              /\ trace[i].lookups = 0
              /\ (~HasError(i) /\ Truthy(trace[i].imdb_id)) =>
                    /\ trace[i].item_state = "Not Found"
                    /\ trace[i].wanted
                    /\ InWanted(trace[i])

\* with removal enabled and the lookup failed, a movie and a series the
\* library holds as collected were both returned as wanted
PresenceFailureWitness ==
    /\ ppc = "done"
    /\ removal_enabled
    /\ presence_map = <<>>
    /\ Len(results) = 2
    /\ results[1].imdb_id = "tt1" /\ ~HasError(1) /\ library["tt1"] = "Collected"
    /\ results[2].imdb_id = "tt2" /\ library["tt2"] = "Collected"
    /\ wanted_items = <<WantedItem("tt1", "movie"), WantedItem("tt2", "tv")>>
    /\ stats.processed = 2

\* ---------------------------------------------------------- fingerprints
\* the key the claim gives an item: its guid when it has a non-empty one,
\* else type:title when it has both, else none
Fingerprint(i) ==
    IF i.guid # "" THEN <<i.guid>>
    ELSE IF i.hasTitleType THEN <<i.type \o ":" \o i.title>>
    ELSE NoKey

\* C31: set stores the entry under the item's guid, or under type:title
\* when it has no guid, and get reads it from there, so that two objects
\* without guid and with the same type and title read and write one entry;
\* for an item with neither, get returns None and set stores nothing.
FingerprintDerivation ==
    [][ ops' = ops + 1
        => LET i == last'.item
               k == Fingerprint(i)
           IN /\ last'.op = "set" =>
                    IF k = NoKey THEN cache' = cache
                    ELSE /\ KeysOf(cache') = KeysOf(cache) \cup {k}
                         /\ Fields(EntryOf(cache', k)) = Fields(last'.details)
              /\ last'.op = "get" =>
                    IF k = NoKey THEN last'.ret = Absent /\ cache' = cache
                    ELSE IF k \in KeysOf(cache) /\ now - EntryOf(cache, k).cached_at < MaxAge
                    THEN last'.ret = Hit(EntryOf(cache, k)) /\ cache' = cache
                    ELSE ~last'.ret.hit /\ k \notin KeysOf(cache') ]_vars

\* the second object, which is never an argument of set, was served the
\* one entry stored, while an object of that type and title with a guid
\* would have been looked up under its guid
FingerprintWitness ==
    /\ last.op = "get"
    /\ last.item = SecondObject
    /\ last.ret.hit
    /\ last.ret.entry.imdb_id = "tt1"
    /\ KeysOf(cache) = { <<"movie:A">> }
    /\ make_cache_key(Item("g1", TRUE, "movie", "A")) = <<"g1">>

\* ------------------- the account functions (content_checkers/plex_watchlist.py)
\* the file each function hands to PlexDetailCache: DETAIL_CACHE_FILE in both
\* (other_detail_cache_file is computed and not used)
cache_file(who) == "DETAIL_CACHE_FILE"

\* an except block that lets the exception go on to the caller
on_exception_reraise(a) == [a EXCEPT !.pos = "returned", !.raised = TRUE]

\* except Exception of an account function: return [([], versions)]
on_exception(a) == [a EXCEPT !.pos = "returned", !.returned = <<>>]

\* return [([], versions)] before the loop
return_empty(a) == [a EXCEPT !.pos = "returned", !.returned = <<>>]

\* a username check that accepts every token
token_mismatch_ignored(token_user, username) == FALSE

\* account.username != username
token_mismatch(token_user, username) == token_user # username

\* a loop that goes on with an item that has any id
other_wanted_any_id(r) == ~Truthy(r.error) /\ (Truthy(r.imdb_id) \/ Truthy(r.tmdb_id))

\* the two skips of the other user's loop: a result is kept when it has no
\* error and an imdb_id
other_wanted(r) == ~Truthy(r.error) /\ Truthy(r.imdb_id)

\* account.watchlist(): an exception or a list of items
Listings ==
    { [raises |-> TRUE, items |-> <<>>] } \cup
    { [raises |-> FALSE, items |-> l] :
        l \in { <<>>, <<MovieItem>>, <<ShowItem>>, <<MovieItem, ShowItem>> } }

\* one turn of the main account's loop over all_fetched_items; conv, state,
\* trakt and remOk are what tmdb_to_imdb's service, get_media_item_presence,
\* Trakt and removeFromWatchlist do if they are called
main_item(a, r, plex, conv, state, trakt, remOk) ==
    LET media0 == IF Truthy(r.media_type) THEN r.media_type ELSE plex.type
        converts == ~Truthy(r.imdb_id) /\ Truthy(r.tmdb_id) /\ Truthy(media0)
        converted == tmdb_to_imdb(conv)
        imdb == IF converts /\ Truthy(converted) THEN converted ELSE r.imdb_id
        media == IF media0 = "show" THEN "tv" ELSE media0
        a1 == [a EXCEPT !.i = @ + 1]
        a2 == [a1 EXCEPT !.conversions = @ + (IF converts THEN 1 ELSE 0)]
        a3 == [a2 EXCEPT !.presences = @ + 1]
        item == [imdb_id |-> imdb, media_type |-> media, content_source_detail |-> a.token_user]
    IN IF Truthy(r.error) THEN a1
       ELSE IF ~Truthy(imdb) THEN a2
       ELSE IF state = "raise"
       THEN on_exception([a3 EXCEPT !.i = a.i, !.exc = "processing"])
       ELSE IF state = "Collected" /\ a.should_remove
       THEN IF media = "tv" /\ a.keep_series THEN a3
            ELSE IF media = "tv" /\ get_show_status(trakt) # "ended"
            THEN [a3 EXCEPT !.statuses = @ + 1]
            ELSE LET a4 == [a3 EXCEPT !.statuses = @ + (IF media = "tv" THEN 1 ELSE 0),
                                      !.removals = @ + 1]
                 IN IF remOk THEN [a4 EXCEPT !.removed = @ + 1]
                    ELSE [a4 EXCEPT !.wanted = Append(@, item)]
       ELSE [a3 EXCEPT !.wanted = Append(@, item)]

\* one turn of the other user's loop over all_fetched_items
other_item(a, r, plex) ==
    LET media0 == IF Truthy(r.media_type) THEN r.media_type ELSE plex.type
        media == IF media0 = "show" THEN "tv" ELSE media0
        a1 == [a EXCEPT !.i = @ + 1]
    IN IF other_wanted(r)
       THEN [a1 EXCEPT !.wanted = Append(@, [imdb_id |-> r.imdb_id, media_type |-> media,
                                             content_source_detail |-> a.token_user])]
       ELSE a1

\* an account function from its call to the call of fetch_all_item_details:
\* the connection, the username check (other user), the settings (main
\* account), the listing and the construction of the detail cache
Call(who, username, token_user, conn, listing, remove, keep) ==
    /\ acct.pos \in {"idle", "returned"}
    /\ ~acct.raised
    /\ run < MaxRuns
    /\ who = "main" => (username = token_user /\ conn # "raise")
    /\ LET a0 == [NoAcct EXCEPT !.who = who, !.username = username, !.token_user = token_user,
                                !.conn = conn,
                                !.should_remove = remove, !.keep_series = keep]
           a1 == [a0 EXCEPT !.listings = 1]
           r == load_cache(file, disk)
           early == IF conn = "none" THEN return_empty(a0)
                    ELSE IF conn = "raise" THEN on_exception([a0 EXCEPT !.exc = "connection"])
                    ELSE IF who = "other" /\ token_mismatch(token_user, username)
                    THEN return_empty(a0)
                    ELSE IF listing.raises THEN on_exception([a1 EXCEPT !.exc = "listing"])
                    ELSE IF listing.items = <<>> THEN return_empty(a1)
                    ELSE IF r.raised
                    THEN on_exception([a1 EXCEPT !.caches = 1, !.exc = "cache"])
                    ELSE [a1 EXCEPT !.pos = "fetch", !.caches = 1, !.loaded = r.cache]
       IN /\ acct' = early
          /\ IF early.pos = "fetch"
             THEN /\ cache' = r.cache
                  /\ store' = "built"
                  /\ watchlist' = listing.items
                  /\ last' = [NoCall EXCEPT !.op = "init"]
                  /\ shadow' = [k \in CacheKeys |-> NoSet]
             ELSE UNCHANGED <<cache, store, watchlist, last, shadow>>
    /\ pc' = "idle"
    /\ UNCHANGED <<max_entries, now, ops, disk, file, saved, run, cached_items, items_to_fetch,
                   tasks, setIdx, commits, requests, out, procVars, fetchVars>>

\* coordinator.fetch_all_item_details is called
Fetch ==
    /\ acct.pos = "fetch"
    /\ pc = "idle"
    /\ StartRun

\* an exception of the coordinator reaches the function's except block
Catch ==
    /\ acct.pos = "fetch"
    /\ pc = "crashed"
    /\ acct' = on_exception([acct EXCEPT !.exc = "coordinator"])
    /\ UNCHANGED <<cacheVars, coordVars, procVars, fetchVars>>

MainItem(conv, state, trakt, remOk) ==
    /\ acct.who = "main"
    /\ acct.pos = "fetch"
    /\ pc = "done"
    /\ acct.i < Len(out.items)
    /\ LET r == out.items[acct.i + 1]
           next == main_item(acct, r, watchlist[r.src], conv, state, trakt, remOk)
       IN /\ next.conversions > acct.conversions \/ conv = None
          /\ next.presences > acct.presences \/ state = "Not Found"
          /\ next.statuses > acct.statuses \/ trakt = NoTrakt
          /\ next.removals > acct.removals \/ remOk
          /\ acct' = next
    /\ UNCHANGED <<cacheVars, coordVars, procVars, fetchVars>>

OtherItem ==
    /\ acct.who = "other"
    /\ acct.pos = "fetch"
    /\ pc = "done"
    /\ acct.i < Len(out.items)
    /\ LET r == out.items[acct.i + 1] IN
       acct' = other_item(acct, r, watchlist[r.src])
    /\ UNCHANGED <<cacheVars, coordVars, procVars, fetchVars>>

\* after the loop. Main account: the summary logging reads
\* items_to_process_async, a name bound nowhere, so a NameError is raised
\* inside the try and the except block returns. Other user: the wanted list
\* is appended and returned.
Return ==
    /\ acct.pos = "fetch"
    /\ pc = "done"
    /\ acct.i = Len(out.items)
    /\ acct' = IF acct.who = "main"
               THEN on_exception([acct EXCEPT !.exc = "NameError"])
               ELSE [acct EXCEPT !.pos = "returned", !.returned = acct.wanted]
    /\ UNCHANGED <<cacheVars, coordVars, procVars, fetchVars>>

\* The two account functions called one after the other over one cache
\* file. A connection gives an account ("ok"), None or an exception; the
\* presence lookup gives a state or an exception.
AccountNext ==
    \/ \E who \in {"main", "other"}, username \in {"u1", "u2"}, token_user \in {"u1", "u2"},
          conn \in {"ok", "none", "raise"}, listing \in Listings,
          remove \in BOOLEAN, keep \in BOOLEAN :
          Call(who, username, token_user, conn, listing, remove, keep)
    \/ Fetch
    \/ \E j \in DOMAIN tasks : Issue(j)
    \/ \E j \in DOMAIN tasks, resp \in {RTimeout, RImdb, RTmdb} : Settle(j, resp)
    \/ CacheStep
    \/ Commit("ok")
    \/ Catch
    \/ \E conv \in ConvOutcomes, state \in {"Collected", "Not Found", "raise"},
          trakt \in {NoTrakt, Trakt("ok", "ended"), Trakt("ok", "returning series")},
          remOk \in BOOLEAN : MainItem(conv, state, trakt, remOk)
    \/ OtherItem
    \/ Return

AccountInit ==
    /\ cache = <<>>
    /\ max_entries = MaxCap + 1
    /\ now = 0
    /\ last = NoCall
    /\ shadow = [k \in CacheKeys |-> NoSet]
    /\ ops = 0
    /\ file \in {"missing", "undecodable", "object"}
    /\ disk \in (IF file = "object"
                 THEN { json_dump(<<[key |-> <<"g1">>, val |-> NullEntry]>>) }
                 ELSE { <<>> })
    /\ store = "unbuilt"
    /\ saved = NoSave
    /\ acct = NoAcct
    /\ CoordIdle
    /\ ProcIdle
    /\ FetchIdle

SpecAccount == AccountInit /\ [][AccountNext]_vars

\* ----------------------------------------------------- get on stored data
\* C36: get returns an entry or None and does not raise, whatever JSON
\* object the store was loaded from.
GetNeverRaises ==
    last.op = "get" => last.ret.exc = None

\* ------------------------------------------------- the account functions
\* the other user's function was called with a token of another account
Mismatch == acct.who = "other" /\ acct.conn = "ok" /\ acct.token_user # acct.username

\* C39: when the token's account has another username than the requested
\* one, the other user's function returns one pair with an empty list and
\* has not listed the watchlist, built, read or written the detail cache, or
\* started a detail fetch.
MismatchAborts ==
    /\ [](Mismatch => /\ acct.pos = "returned"
                      /\ acct.returned = <<>>
                      /\ ~acct.raised
                      /\ acct.listings = 0
                      /\ acct.caches = 0)
    /\ [][Mismatch' => UNCHANGED <<cache, store, last, file, disk, saved, watchlist, run,
                                    tasks, requests, setIdx, commits>>]_vars

MismatchWitness ==
    /\ Mismatch
    /\ acct.pos = "returned"
    /\ file = "object"
    /\ run = 1

\* the results of the loop's first n turns that have no error and an imdb_id
WithPrimaryId(n) ==
    SelectSeq(SubSeq(out.items, 1, n), LAMBDA r : r.error = None /\ r.imdb_id # None)

\* C38: the other user's function makes no removal, presence, show-status or
\* conversion call whatever the settings are; the results with no error and
\* an imdb_id become its wanted items, in order, the others are skipped, and
\* the list is what it returns.
OtherReadOnly ==
    acct.who = "other" =>
        /\ acct.removals = 0 /\ acct.removed = 0
        /\ acct.presences = 0 /\ acct.statuses = 0 /\ acct.conversions = 0
        /\ (acct.caches = 1 /\ pc = "done") =>
              /\ Len(acct.wanted) = Len(WithPrimaryId(acct.i))
              /\ \A k \in 1..Len(acct.wanted) :
                    /\ acct.wanted[k].imdb_id = WithPrimaryId(acct.i)[k].imdb_id
                    /\ acct.wanted[k].media_type \in {"movie", "tv"}
              /\ acct.pos = "returned" => (acct.i = Len(out.items) /\ acct.returned = acct.wanted)

OtherReadOnlyWitness ==
    /\ acct.who = "other"
    /\ acct.pos = "returned"
    /\ acct.should_remove
    /\ acct.i = 2
    /\ Len(acct.returned) = 1
    /\ out.items[1].imdb_id = None

\* C32: an exception of the listing, the cache, the coordinator or the loop
\* never leaves the account function; the function returns one pair with an
\* empty list.
ExceptionsContained ==
    /\ ~acct.raised
    /\ acct.exc # "" => (acct.pos = "returned" /\ acct.returned = <<>>)

ExceptionsContainedWitness ==
    /\ acct.exc = "coordinator"
    /\ acct.pos = "returned"
    /\ pc = "crashed"
    /\ acct.loaded # <<>>

\* what a cache built on the file of an account's function holds: the
\* model's file is DETAIL_CACHE_FILE, a file of another name is written by
\* nobody
Loads(who) ==
    IF cache_file(who) = "DETAIL_CACHE_FILE" THEN load_cache(file, disk).cache ELSE <<>>

\* C33: nothing done during the main account's run changes the entries the
\* cache of another user's run loads.
PerAccountCacheFiles ==
    [][acct.who = "main" => Loads("other")' = Loads("other")]_vars

\* C35: on the main account's success path (connection, non-empty listing,
\* no exception of a collaborator) the function returns the items its loop
\* found wanted.
MainReturnsWanted ==
    (/\ acct.who = "main"
     /\ acct.pos = "returned"
     /\ acct.conn = "ok"
     /\ acct.caches = 1
     /\ acct.exc \notin {"listing", "cache", "coordinator", "processing"})
    => acct.returned = acct.wanted

\* ------------------------------------------------ the fetch phase, scheduled
\* The event loop runs every task that can go on: a task that can take a
\* connection takes one, a request in flight settles within its timeout, a
\* waiting task's timeout fires while it waits, and the coordinator goes on
\* once the gather has returned.
FairRequests ==
    /\ SpecRequests
    /\ WF_vars(StartRun)
    /\ \A j \in 1..MaxItems :
          /\ WF_vars(j \in DOMAIN tasks /\ Issue(j))
          /\ WF_vars(j \in DOMAIN tasks /\ \E resp \in Responses : Settle(j, resp))
          /\ WF_vars(j \in DOMAIN tasks /\ TimeoutWaiting(j))
    /\ WF_vars(CacheStep)
    /\ WF_vars(\E w \in WriteOutcomes : Commit(w))

\* the request of task j has been sent
Issued(j) == j \in DOMAIN items_to_fetch /\ items_to_fetch[j] \in requests

\* every task of a fetch settles and the coordinator's call returns
FetchReturns ==
    /\ \A j \in 1..MaxItems :
          (pc = "fetching" /\ j \in DOMAIN tasks) ~>
              (pc # "fetching" \/ (j \in DOMAIN tasks /\ tasks[j].st = "settled"))
    /\ (pc = "fetching") ~> (pc # "fetching")

\* C40: every request of a fetch is eventually issued and settles, and the
\* fetch eventually returns.
FetchPhaseTerminates ==
    /\ \A j \in 1..MaxItems :
          (pc = "fetching" /\ j \in DOMAIN tasks /\ tasks[j].st = "pending") ~> Issued(j)
    /\ FetchReturns

====
